---- MODULE Spec2Model ----
(***************************************************************************)
(* Model of the ebook storefront backend.                                  *)
(*                                                                         *)
(*   Spec           the current server, src/server/index.js: the admin     *)
(*                  routes and the GETs of the catalogue                   *)
(*   SpecStream     its PDF, download and view routes                      *)
(*   SpecCover      its cover route                                        *)
(*   SpecBooks      the sources of getBooks                                *)
(*   SpecRace       admin requests interleaved at their awaits             *)
(*   SpecSeq        the same requests one at a time                        *)
(*   SpecSweep      the prefix sweep of DELETE, one pass at a time         *)
(*   SpecAuth       ensureB2Authorized, call by call                       *)
(*   SpecZip        the ZIP download of a book in parts                    *)
(*   SpecCache      the file-id caching server, src/unnamed/part_013       *)
(*   SpecCacheRace  its /pdf route interleaved with DELETE                 *)
(*                                                                         *)
(* Strings that the code inspects (file names, URLs, cover paths) are      *)
(* sequences of tokens, so that startsWith / includes / endsWith / split   *)
(* are computed; <<>> stands for null, undefined and '' alike (the code    *)
(* only tests these fields for truthiness).                                *)
(***************************************************************************)
EXTENDS Integers, Sequences, FiniteSets, TLC

VARIABLES
    env,            \* process.env derived flags, fixed at start-up
    localBooks,     \* content of server/books.json (BOOKS_FILE)
    b2Json,         \* content of B2 data/books.json, NoJson when absent
    bucket,         \* B2 bucket: set of [fileName, fileId] (without data/books.json)
    cloud,          \* Cloudinary assets: set of [pid, ctx]
    blogs,          \* content of server/blogs.json (BLOGS_FILE)
    b2Authorized,   \* let b2Authorized
    b2AuthData,     \* let b2AuthData (TRUE when set)
    clock,          \* Date.now() of the last admin request that got past validation
    nextId,         \* number of book/blog ids generated so far
    req,            \* the last request handled
    resp,           \* the response it got
    deletedOk,      \* ids for which DELETE /api/admin/books/:id answered success
    pending,        \* work started: in part_013 the books.json uploads that saveBooks
                    \* started and that have not finished; under interleaving, the
                    \* requests with the list each read and its answer
    b2Calls         \* part_013: B2 API calls made for the last request, in order

vars == <<env, localBooks, b2Json, bucket, cloud, blogs, b2Authorized, b2AuthData,
          clock, nextId, req, resp, deletedOk, pending, b2Calls>>

-----------------------------------------------------------------------------
(* Bounds of the model *)

MaxBooks == 2       \* ids generated by POST /api/admin/books and /api/admin/blogs
MaxClock == 1       \* admin requests that get past validation (each at a later Date.now())
MaxParts == 2       \* pdfPart<i> files in one upload
MaxFailing == 1     \* files whose B2 call fails within one request
MaxRequests == 2    \* admin requests that are interleaved
MaxStray == 4       \* files under books/<id>/ that no record names
MaxCallers == 3     \* calls of ensureB2Authorized that are in progress together
MaxPage == 2        \* names in one page of the prefix sweep (maxFileCount: 1000)

-----------------------------------------------------------------------------
(* Strings as token sequences *)

UNDEF == "\\undefined"          \* a body field that is absent
NoJson == <<[absent |-> TRUE]>>  \* data/books.json does not exist in the bucket
NoBody == [kind |-> "none"]

StartsWith(s, p) == Len(p) <= Len(s) /\ SubSeq(s, 1, Len(p)) = p

EndsWith(s, p) == Len(p) <= Len(s) /\ SubSeq(s, Len(s) - Len(p) + 1, Len(s)) = p

Includes(s, p) == \E i \in 1..(Len(s) - Len(p) + 1) : SubSeq(s, i, i + Len(p) - 1) = p

Truthy(s) == s # <<>>

Or(a, b) == IF Truthy(a) THEN a ELSE b

\* Byte order of the tokens that occur at the same position of two names.
TokRank(t) ==
    CASE t = "/"               -> 1
      [] t = "-"               -> 2
      [] t = "."               -> 3
      [] t = ".bak"            -> 4
      [] t = "A"               -> 20
      [] t = "B"               -> 21
      [] t = "X.PDF"           -> 25
      [] t = "a"               -> 30
      [] t = "b"               -> 31
      [] t = "book-"           -> 40
      [] t = "books/"          -> 41
      [] t = "c.jpg"           -> 42
      [] t = "covers/"         -> 43
      [] t = "data/books.json" -> 44
      [] t = "old/"            -> 45
      [] t = "parts/part-"     -> 46
      [] t = "pdfs/"           -> 47
      [] t = "x.pdf"           -> 48
      [] OTHER                 -> 10 + (CHOOSE n \in 0..9 : ToString(n) = t)

RECURSIVE NameLess(_, _)
NameLess(a, b) ==
    IF b = <<>> THEN FALSE
    ELSE IF a = <<>> THEN TRUE
    ELSE IF Head(a) = Head(b) THEN NameLess(Tail(a), Tail(b))
    ELSE TokRank(Head(a)) < TokRank(Head(b))

NameLeq(a, b) == a = b \/ NameLess(a, b)

-----------------------------------------------------------------------------
(* Backblaze B2 as the server sees it *)

BooksJsonName == <<"data/books.json">>

\* Every file of the bucket, data/books.json included when it exists.
AllFiles(bkt, json) ==
    bkt \cup (IF json = NoJson THEN {} ELSE {[fileName |-> BooksJsonName, fileId |-> 0]})

RECURSIVE SortFiles(_)
SortFiles(S) ==
    IF S = {} THEN <<>>
    ELSE LET f == CHOOSE x \in S : \A y \in S : NameLeq(x.fileName, y.fileName)
         IN  <<f>> \o SortFiles(S \ {f})

Take(s, n) == SubSeq(s, 1, IF Len(s) < n THEN Len(s) ELSE n)

\* b2.listFileNames({startFileName, maxFileCount}): the files whose name is at or
\* after startFileName, in name order, at most maxFileCount of them.
ListFileNames(files, startFileName, maxFileCount) ==
    LET from == SortFiles({f \in files : NameLeq(startFileName, f.fileName)})
    IN  [files        |-> Take(from, maxFileCount),
         nextFileName |-> IF Len(from) > maxFileCount
                          THEN from[maxFileCount + 1].fileName ELSE <<>>]

\* Array.prototype.find: the first element that satisfies Test, NoFile when none.
NoFile == [fileName |-> <<>>, fileId |-> -1]

Find(s, Test(_)) ==
    LET hits == {i \in 1..Len(s) : Test(s[i])}
    IN  IF hits = {} THEN NoFile
        ELSE s[CHOOSE i \in hits : \A j \in hits : i <= j]

-----------------------------------------------------------------------------
(* Environment and configuration (src/server/index.js) *)

ADMIN_PASSWORD == "admin123"

hasB2Credentials == env.b2

hasCloudinaryCredentials == env.cloudinary

\* A plan of the faults of one request: the set of the calls that fail when
\* (and if) the handler gets to them:
\*   auth  b2.authorize                 dl   the download of data/books.json
\*   up    the upload of data/books.json put  the upload of a PDF
\*   cdn   a Cloudinary upload          ls   b2.listFileNames for a PDF
\*   tok   b2.getDownloadAuthorization  net  the HTTP GET of a signed URL
\*   byId  a download by file id     res  cloudinary.api.resources
\*   lsb   b2.listFileNames for the files of a book when the list is rebuilt
\* and unauth: a failing GET of a signed URL fails with another status than 401.
FaultFlags == {"auth", "dl", "up", "put", "cdn", "ls", "tok", "net", "unauth", "byId",
               "res", "lsb"}

NoFaults == {}

Ok(flt, call) == call \notin flt

\* The plans in which only the calls named in flags may fail.  A call that is
\* not reached cannot fail: the GET of a signed URL needs the download
\* authorization, a download by file id needs the listing.
FaultsOf(flags) ==
    {flt \in SUBSET flags :
        /\ "unauth" \in flt => "net" \in flt
        /\ "net" \in flt => "tok" \notin flt
        /\ "byId" \in flt => "ls" \notin flt}

\* ensureB2Authorized with b2Authorized = true set before b2.authorize is
\* awaited, so that a failed authorize leaves it true.
ensureB2Authorized_flagFirst(st, flt) ==
    IF ~hasB2Credentials THEN [auth |-> st.auth, data |-> st.data, ok |-> FALSE]
    ELSE IF st.auth THEN [auth |-> TRUE, data |-> st.data, ok |-> TRUE]
    ELSE IF Ok(flt, "auth") THEN [auth |-> TRUE, data |-> TRUE, ok |-> TRUE]
    ELSE [auth |-> TRUE, data |-> st.data, ok |-> FALSE]

\* ensureB2Authorized on the authorization state st = [auth, data]: authorize is
\* called only when st.auth is false; the result is the state afterwards and
\* whether the call returned (ok) or threw.
ensureB2Authorized(st, flt) ==
    IF ~hasB2Credentials THEN [auth |-> st.auth, data |-> st.data, ok |-> FALSE]
    ELSE IF st.auth THEN [auth |-> TRUE, data |-> st.data, ok |-> TRUE]
    ELSE IF Ok(flt, "auth") THEN [auth |-> TRUE, data |-> TRUE, ok |-> TRUE]
    ELSE [auth |-> FALSE, data |-> st.data, ok |-> FALSE]

AuthState == [auth |-> b2Authorized, data |-> b2AuthData]

\* The sets of file names whose B2 call (upload, deleteFileVersion,
\* downloadFileById) rejects during one request.
FailingSets(names) == {S \in SUBSET names : Cardinality(S) <= MaxFailing}

\* The fault plans of a request whose handler can make the calls named in
\* flags.  A call that is never made cannot fail: no B2 call without B2
\* credentials, no Cloudinary call without Cloudinary credentials, no
\* b2.authorize while b2Authorized is true unless an upload can reset it; and a
\* failed download of data/books.json is only drawn when that file differs
\* from the local one (getBooks returns the same list either way otherwise);
\* the calls that rebuild the list are only made when the local file cannot be
\* read.
\* Once MaxClock admin requests have got past validation no handler gets
\* further than getBooks.
Plans(flags) ==
    FaultsOf({k \in flags :
                IF k = "auth" THEN env.b2 /\ (~b2Authorized \/ "put" \in flags)
                ELSE IF k = "dl" THEN env.b2 /\ b2Json # localBooks
                ELSE IF k = "res" THEN env.cloudinary /\ localBooks = NoJson
                ELSE IF k = "lsb" THEN env.b2 /\ env.cloudinary /\ localBooks = NoJson
                ELSE IF clock >= MaxClock THEN FALSE
                ELSE IF k = "cdn" THEN env.cloudinary
                ELSE env.b2})

-----------------------------------------------------------------------------
(* Book records, file names and URLs *)

IdTok(id) == ToString(id)

\* `books/${bookId}/book-${Date.now()}-${name}.pdf`
PostPdfName(id, now) == <<"books/", IdTok(id), "/", "book-", ToString(now), "-", "x.pdf">>

\* `books/${bookId}/parts/part-${i}-${Date.now()}-${name}.pdf`
PostPartName(id, i, now) ==
    <<"books/", IdTok(id), "/", "parts/part-", ToString(i), "-", ToString(now), "-", "x.pdf">>

\* `pdfs/${Date.now()}-${name}`
PutPdfName(now) == <<"pdfs/", ToString(now), "-", "x.pdf">>

\* `books/${book.id}/`
BookPrefix(id) == <<"books/", IdTok(id), "/">>

PlaceholderCover == <<"https://", "via.placeholder.com/", "600x900.webp">>

\* public_id of the cover uploaded by POST: <folder>/book-covers/cover-<bookId>
PostCoverPid(id) == <<"book-covers/", "cover-", IdTok(id)>>

\* public_id of the cover uploaded by PUT: <folder>/covers/<Date.now()>-<name>
PutCoverPid(now) == <<"covers/", ToString(now), "-", "x">>

\* public_id of a blog image: <folder>/blogs/<Date.now()>-<name>
BlogImagePid(now) == <<"blogs/", ToString(now), "-", "x">>

\* secure_url of a Cloudinary asset
SecureUrl(pid) == <<"https://", "res.cloudinary.com/">> \o pid

IsHttp(s) == s # <<>> /\ Head(s) \in {"http://", "https://"}

\* s.startsWith('http')
StartsWithHttp(s) == IsHttp(s)

\* s.startsWith('/')
StartsWithSlash(s) == s # <<>> /\ Head(s) \in {"/", "/uploads"}

\* s.startsWith('/uploads')
StartsWithUploads(s) == s # <<>> /\ Head(s) = "/uploads"

\* String.prototype.trim on the metadata values of the model
Trim(v) ==
    CASE v = " A " -> "A"
      [] v = " B " -> "B"
      [] v = " "   -> ""
      [] OTHER     -> v

Context(title, category, isTrending) ==
    [title |-> title, category |-> category, isTrending |-> isTrending]

Book(id, title, category, isTrending, now, b2FileName, pdfParts, coverImage, cloudinaryCoverUrl) ==
    [id |-> id, title |-> title, category |-> category, isTrending |-> isTrending,
     updatedAt |-> now,
     b2FileName |-> b2FileName, fileName |-> b2FileName, pdfParts |-> pdfParts,
     coverImage |-> coverImage, cloudinaryCoverUrl |-> cloudinaryCoverUrl,
     b2CoverFileName |-> <<>>, pdfFilePath |-> <<>>, b2FileId |-> 0]

FreshFileId(bkt) ==
    LET used == {f.fileId : f \in bkt} \cup {0}
    IN  1 + CHOOSE m \in used : \A n \in used : n <= m

\* b2.uploadFile: a new file version under this name hides the older one.
B2Put(bkt, name) ==
    {f \in bkt : f.fileName # name} \cup {[fileName |-> name, fileId |-> FreshFileId(bkt)]}

\* uploadPdfToB2(buffer, fileName): on success the file is in the bucket and its
\* name is returned; on any failure b2Authorized is reset and the error rethrown.
uploadPdfToB2(st, bkt, name, flt) ==
    LET a == ensureB2Authorized(st, flt)
    IN  IF a.ok /\ Ok(flt, "put")
        THEN [ok |-> TRUE, name |-> name, bucket |-> B2Put(bkt, name),
              auth |-> a.auth, data |-> a.data]
        ELSE [ok |-> FALSE, name |-> <<>>, bucket |-> bkt,
              auth |-> FALSE, data |-> a.data]

\* The loop over pdfPart1..pdfPart<partsCount> of POST /api/admin/books: a part
\* whose file is absent (i \notin present) or whose upload fails (i \notin okParts)
\* is skipped.
RECURSIVE UploadParts(_, _, _, _, _, _, _, _)
UploadParts(i, n, id, now, present, okParts, flt, acc) ==
    IF i > n THEN acc
    ELSE IF i \notin present
         THEN UploadParts(i + 1, n, id, now, present, okParts, flt, acc)
    ELSE LET u == uploadPdfToB2([auth |-> acc.auth, data |-> acc.data], acc.bucket,
                                PostPartName(id, i, now),
                                IF i \in okParts THEN flt ELSE flt \cup {"put"})
             nxt == [parts  |-> IF u.ok
                                THEN Append(acc.parts, [partNumber |-> i, b2FileName |-> u.name,
                                                        fileName |-> u.name])
                                ELSE acc.parts,
                     bucket |-> u.bucket, auth |-> u.auth, data |-> u.data]
         IN  UploadParts(i + 1, n, id, now, present, okParts, flt, nxt)

-----------------------------------------------------------------------------
(* The book list: getBooks / saveBooks *)

\* downloadBooksJsonFromB2: the parsed array, or NoJson for null.
downloadBooksJsonFromB2(st, flt) ==
    IF ~hasB2Credentials THEN NoJson
    ELSE IF ~ensureB2Authorized(st, flt).ok \/ ~Ok(flt, "dl") THEN NoJson
    ELSE IF Find(ListFileNames(AllFiles(bucket, b2Json), BooksJsonName, 10).files,
                 LAMBDA f : f.fileName = BooksJsonName) = NoFile THEN NoJson
    ELSE b2Json

\* f.fileName.includes('/parts/')
IncludesParts(name) ==
    \E k \in 1..(Len(name) - 1) : name[k] = "/" /\ name[k + 1] = "parts/part-"

\* f.fileName.toLowerCase().endsWith('.pdf')
EndsWithPdf(name) == name # <<>> /\ name[Len(name)] \in {"x.pdf", "X.PDF"}

\* The PDFs of a rebuilt record: the files under books/<id>/ (one page of the
\* listing holds them all); the part files in name order numbered from 1, or
\* else the first file that ends in .pdf.  A failed B2 call leaves both null.
DiscoverPdfs(id, st, flt) ==
    LET Found(files) ==
            LET partFiles == SelectSeq(files, LAMBDA f : /\ IncludesParts(f.fileName)
                                                         /\ EndsWithPdf(f.fileName))
                pdfs      == SelectSeq(files, LAMBDA f : EndsWithPdf(f.fileName))
            IN  IF partFiles # <<>>
                THEN [b2FileName |-> <<>>,
                      pdfParts   |-> [k \in 1..Len(partFiles) |->
                                         [partNumber |-> k,
                                          b2FileName |-> partFiles[k].fileName,
                                          fileName   |-> partFiles[k].fileName]]]
                ELSE [b2FileName |-> IF pdfs = <<>> THEN <<>> ELSE pdfs[1].fileName,
                      pdfParts   |-> <<>>]
    IN  IF ~hasB2Credentials \/ ~ensureB2Authorized(st, flt).ok \/ ~Ok(flt, "lsb")
        THEN [b2FileName |-> <<>>, pdfParts |-> <<>>]
        ELSE Found(SelectSeq(ListFileNames(AllFiles(bucket, b2Json), BookPrefix(id),
                                           1000).files,
                             LAMBDA f : StartsWith(f.fileName, BookPrefix(id))))

\* The record built from the cover `<folder>/book-covers/cover-<bookId>`: the
\* metadata of its context, its secure_url, the PDFs found in B2.
RebuiltBook(id, ctx, pdf) ==
    Book(id, ctx.title, IF ctx.category = "" THEN "General" ELSE ctx.category,
         ctx.isTrending, 0, pdf.b2FileName, pdf.pdfParts,
         SecureUrl(PostCoverPid(id)), SecureUrl(PostCoverPid(id)))

\* The catch branch of getBooks: [] without Cloudinary credentials or when
\* cloudinary.api.resources rejects; else one record per cover under
\* book-covers/cover-, here in the order of the ids.
RECURSIVE RebuildFrom(_, _, _)
RebuildFrom(ids, st, flt) ==
    IF ids = {} THEN <<>>
    ELSE LET id == CHOOSE i \in ids : \A j \in ids : i <= j
             r  == CHOOSE a \in cloud : a.pid = PostCoverPid(id)
         IN  <<RebuiltBook(id, r.ctx, DiscoverPdfs(id, st, flt))>>
                 \o RebuildFrom(ids \ {id}, st, flt)

RebuildBooks(st, flt) ==
    IF ~hasCloudinaryCredentials \/ ~Ok(flt, "res") THEN <<>>
    ELSE RebuildFrom({id \in 1..(2 * MaxBooks) :
                         \E a \in cloud : a.pid = PostCoverPid(id)}, st, flt)

\* Variant of getBooks that reads the local file first, as the file-id caching
\* server does; the precedence property below must tell it from getBooks.
getBooks_localFirst(st, flt) ==
    LET Loaded(b2Books) ==
            IF localBooks # NoJson THEN localBooks
            ELSE IF hasB2Credentials /\ b2Books # NoJson THEN b2Books
            ELSE RebuildBooks(st, flt)
    IN  Loaded(downloadBooksJsonFromB2(st, flt))

\* getBooks: B2 data/books.json when it yields an array, else the local file
\* (NoJson when it cannot be read or parsed), else the list rebuilt from the
\* providers.
getBooks(st, flt) ==
    LET Loaded(b2Books) ==
            IF hasB2Credentials /\ b2Books # NoJson THEN b2Books
            ELSE IF localBooks # NoJson THEN localBooks
            ELSE RebuildBooks(st, flt)
    IN  Loaded(downloadBooksJsonFromB2(st, flt))

\* uploadBooksJsonToB2 returns true (the upload went through) or false.
uploadBooksJsonToB2(st, flt) ==
    hasB2Credentials /\ ensureB2Authorized(st, flt).ok /\ Ok(flt, "up")

\* saveBooks(books): the local file is written, then data/books.json is
\* uploaded when B2 is configured; the result of the upload is only logged.
saveBooks(books, st, flt) ==
    /\ localBooks' = books
    /\ b2Json' = IF uploadBooksJsonToB2(st, flt) THEN books ELSE b2Json

\* Authorization state after a handler whose B2 calls are those of getBooks
\* and, when saved is true, saveBooks.
AuthAfter(st, flt) ==
    LET a == ensureB2Authorized(st, flt)
    IN  [auth |-> a.auth, data |-> a.data]

SetAuth(st) ==
    /\ b2Authorized' = st.auth
    /\ b2AuthData' = st.data

IndexOf(books, id) ==
    LET hits == {i \in 1..Len(books) : books[i].id = id}
    IN  IF hits = {} THEN 0 ELSE CHOOSE i \in hits : \A j \in hits : i <= j

Ids(books) == {books[i].id : i \in 1..Len(books)}

-----------------------------------------------------------------------------
(* Requests and responses *)

JsUndef == [t |-> "undefined", s |-> ""]
JsBool(b) == [t |-> "boolean", s |-> IF b THEN "true" ELSE "false"]
JsStr(v) == [t |-> "string", s |-> v]

\* Variant of IsTrue that takes every value that is present for true; the
\* trending property below must tell it from IsTrue.
IsTrue_present(x) == x.t # "undefined"

\* x === 'true' || x === true
IsTrue(x) == x.t \in {"string", "boolean"} /\ x.s = "true"

\* The x-admin-password header (h) and the adminPassword body field (p) of a
\* request: no password; the password in the body only; a wrong password in
\* the header; the password in the header.
PwCases == {[h |-> "", p |-> ""], [h |-> "", p |-> ADMIN_PASSWORD],
            [h |-> "letmein", p |-> ""], [h |-> ADMIN_PASSWORD, p |-> ""]}

Request(route, id, headerPw, bodyPw, body) ==
    [route |-> route, id |-> id, headerPw |-> headerPw, bodyPw |-> bodyPw, body |-> body]

Response(status, body) == [status |-> status, body |-> body]

\* Variant of verifyAdminPassword that lets every request through; the 401
\* property below must tell it from verifyAdminPassword.
verifyAdminPassword_open(r, parsed) == TRUE

\* verifyAdminPassword: TRUE when next() is called, FALSE when it answers 401.
\* parsed: whether req.body has been parsed when the middleware runs (JSON
\* bodies are, multipart bodies are parsed by multer after it).
verifyAdminPassword(r, parsed) ==
    LET password == IF r.headerPw # "" THEN r.headerPw
                    ELSE IF parsed THEN r.bodyPw ELSE ""
    IN  password # "" /\ password = ADMIN_PASSWORD

Stores == <<localBooks, b2Json, bucket, cloud, blogs>>

\* The 401 answer of verifyAdminPassword: nothing else happens.
Reject(r) ==
    /\ req' = r
    /\ resp' = Response(401, NoBody)
    /\ UNCHANGED <<env, Stores, b2Authorized, b2AuthData, clock, nextId, deletedOk,
                   pending, b2Calls>>

\* An admin route is verifyAdminPassword, then the handler.  A request that is
\* answered 401 is drawn with the plain body of its route and the first id only
\* (the middleware reads neither).
Unauthorized(r, plainBody) ==
    /\ r.body = plainBody
    /\ r.id <= 1
    /\ Reject(r)

\* The requests drawn for the handler: one that carries the password in its
\* body alone has the plain body of its route (Drawn), and so has every
\* request made once MaxClock admin requests have got past validation (Bodies).
Drawn(r, plainBody) == r.body = plainBody \/ r.headerPw = ADMIN_PASSWORD

Bodies(all, plainBody) == IF clock < MaxClock THEN all ELSE {plainBody}

\* Once MaxClock admin requests have got past validation a route of one book
\* can only answer 404, which takes an id that one of the two lists lacks.
Answerable(id) ==
    \/ clock < MaxClock
    \/ \A i \in 1..Len(localBooks) : localBooks[i].id # id
    \/ b2Json # NoJson /\ \A i \in 1..Len(b2Json) : b2Json[i].id # id

-----------------------------------------------------------------------------
(* PATCH /api/admin/books/:id/trending *)

TrendingBodies ==
    {[isTrending |-> v] : v \in {JsUndef, JsBool(TRUE), JsBool(FALSE), JsStr("true")}}

PlainTrending == [isTrending |-> JsBool(TRUE)]

PatchTrendingHandler(r, flt) ==
    LET Found(books, i, st1) ==
            LET saved == [books EXCEPT ![i].isTrending = IsTrue(r.body.isTrending)]
            IN  /\ clock < MaxClock
                /\ clock' = clock + 1
                /\ saveBooks(saved, st1, flt)
                /\ resp' = Response(200, [kind |-> "book", book |-> saved[i]])
        Loaded(books, st1) ==
            /\ req' = r
            /\ SetAuth(st1)
            /\ UNCHANGED <<env, bucket, cloud, blogs, nextId, deletedOk, pending, b2Calls>>
            /\ IF IndexOf(books, r.id) = 0
               THEN /\ r.body = PlainTrending
                    /\ resp' = Response(404, NoBody)
                    /\ UNCHANGED <<localBooks, b2Json, clock>>
               ELSE Found(books, IndexOf(books, r.id), st1)
    IN  Loaded(getBooks(AuthState, flt), AuthAfter(AuthState, flt))

PatchTrending ==
    \E id \in 1..MaxBooks, pw \in PwCases, body \in Bodies(TrendingBodies, PlainTrending) :
        LET r == Request("PATCH trending", id, pw.h, pw.p, body)
        IN  IF verifyAdminPassword(r, TRUE)
            THEN /\ Drawn(r, PlainTrending) /\ Answerable(id)
                 /\ \E flt \in Plans({"auth", "dl", "up"}) : PatchTrendingHandler(r, flt)
            ELSE Unauthorized(r, PlainTrending)

-----------------------------------------------------------------------------
(* POST /api/admin/books *)

\* category?.trim() || 'General'
CategoryOrGeneral(c) == IF c = UNDEF \/ Trim(c) = "" THEN "General" ELSE Trim(c)

\* The PDF(s) of the request uploaded to B2: [parts, name, bucket, auth, data].
PostUploads(id, now, files, n, present, okParts, st, flt) ==
    IF files = "parts"
    THEN LET u == UploadParts(1, n, id, now, present, okParts, flt,
                              [parts |-> <<>>, bucket |-> bucket,
                               auth |-> st.auth, data |-> st.data])
         IN  [parts |-> u.parts, name |-> <<>>, bucket |-> u.bucket,
              auth |-> u.auth, data |-> u.data]
    ELSE IF files = "pdf"
    THEN LET u == uploadPdfToB2(st, bucket, PostPdfName(id, now), flt)
         IN  [parts |-> <<>>, name |-> u.name, bucket |-> u.bucket,
              auth |-> u.auth, data |-> u.data]
    ELSE [parts |-> <<>>, name |-> <<>>, bucket |-> bucket,
          auth |-> st.auth, data |-> st.data]

PostBodies ==
    {b \in [title : {"", " A "}, category : {UNDEF, "Comics"}, isTrending : {"true", "false"},
            files : {"none", "pdf", "parts"}, cover : BOOLEAN,
            present : SUBSET (1..MaxParts)] :
        /\ (b.category = UNDEF <=> b.isTrending = "false")
        /\ (b.category = UNDEF <=> ~b.cover)
        /\ (b.files = "parts" <=> b.present # {})
        /\ (b.title = "" => b.files = "none" /\ ~b.cover)}

PlainPost ==
    [title |-> " A ", category |-> UNDEF, isTrending |-> "false", files |-> "none",
     cover |-> FALSE, present |-> {}]

\* failed: the parts whose upload to B2 rejects.
PostBookUploaded(r, flt, failed) ==
    LET id     == nextId + 1
        now    == clock + 1
        toCdn  == r.body.cover /\ hasCloudinaryCredentials
        Stored(books, up, book) ==
            /\ req' = r
            /\ nextId' = id
            /\ clock' = now
            /\ bucket' = up.bucket
            /\ UNCHANGED <<env, blogs, deletedOk, pending, b2Calls>>
            /\ IF toCdn /\ ~Ok(flt, "cdn")
               THEN \* the Cloudinary upload rejects: 500, nothing is saved
                    /\ resp' = Response(500, NoBody)
                    /\ SetAuth(up)
                    /\ UNCHANGED <<localBooks, b2Json, cloud>>
               ELSE /\ cloud' = IF toCdn
                                THEN {a \in cloud : a.pid # PostCoverPid(id)}
                                     \cup {[pid |-> PostCoverPid(id),
                                            ctx |-> Context(book.title, book.category,
                                                            book.isTrending)]}
                                ELSE cloud
                    /\ saveBooks(Append(books, book), up, flt)
                    /\ SetAuth(AuthAfter(up, flt))
                    /\ resp' = Response(201, [kind |-> "book", book |-> book])
        Uploaded(books, up) ==
            Stored(books, up,
                   Book(id, Trim(r.body.title), CategoryOrGeneral(r.body.category),
                        r.body.isTrending = "true", now,
                        IF Len(up.parts) > 0 THEN <<>> ELSE up.name,
                        up.parts,
                        IF toCdn THEN SecureUrl(PostCoverPid(id)) ELSE PlaceholderCover,
                        <<>>))
    IN  /\ nextId < MaxBooks /\ clock < MaxClock
        /\ r.body.files # "none" \/ Ok(flt, "put")
        /\ r.body.cover \/ Ok(flt, "cdn")
        /\ Uploaded(getBooks(AuthState, flt),
                    PostUploads(id, now, r.body.files, MaxParts, r.body.present,
                                r.body.present \ failed, AuthAfter(AuthState, flt), flt))

PostBookHandler(r, flt) ==
    IF r.body.title = ""
    THEN /\ flt = NoFaults
         /\ req' = r
         /\ resp' = Response(400, NoBody)
         /\ UNCHANGED <<env, Stores, b2Authorized, b2AuthData, clock, nextId,
                        deletedOk, pending, b2Calls>>
    ELSE \E failed \in FailingSets(r.body.present) : PostBookUploaded(r, flt, failed)

PostBook ==
    \E pw \in PwCases, body \in Bodies(PostBodies, PlainPost) :
        LET r == Request("POST book", 0, pw.h, pw.p, body)
        IN  IF verifyAdminPassword(r, FALSE)
            THEN /\ Drawn(r, PlainPost) /\ clock < MaxClock
                 /\ \E flt \in Plans({"auth", "dl", "up", "put", "cdn"}) : PostBookHandler(r, flt)
            ELSE Unauthorized(r, PlainPost)

-----------------------------------------------------------------------------
(* PUT /api/admin/books/:id *)

\* cloudinary.uploader.explicit(cover-<id>, {context}): rewrites the context of
\* the cover uploaded by POST; it fails when that asset does not exist (the
\* handlers only log the failure).
ExplicitContext(assets, id, ctx, succeeds) ==
    IF succeeds /\ \E a \in assets : a.pid = PostCoverPid(id)
    THEN {a \in assets : a.pid # PostCoverPid(id)} \cup {[pid |-> PostCoverPid(id), ctx |-> ctx]}
    ELSE assets

\* "Update simple fields" of PUT: a field that is present is trimmed and stored.
UpdateSimpleFields(book, title, category, trending) ==
    [book EXCEPT
        !.title      = IF title # UNDEF THEN Trim(title) ELSE @,
        !.category   = IF category # UNDEF
                       THEN (IF Trim(category) = "" THEN "General" ELSE Trim(category))
                       ELSE @,
        !.isTrending = IF trending # UNDEF THEN trending = "true" ELSE @]

\* Variant of ReplaceFiles that writes the file fields whether or not a file
\* was sent; the PUT frame property below must tell it from ReplaceFiles.
ReplaceFiles_always(book, pdfName, coverUrl) ==
    [book EXCEPT !.b2FileName = pdfName, !.fileName = pdfName,
                 !.coverImage = coverUrl, !.cloudinaryCoverUrl = coverUrl]

\* The file fields PUT writes when the request carries a pdf / a coverImage.
ReplaceFiles(book, pdfName, coverUrl) ==
    [book EXCEPT
        !.b2FileName         = IF pdfName # <<>> THEN pdfName ELSE @,
        !.fileName           = IF pdfName # <<>> THEN pdfName ELSE @,
        !.coverImage         = IF coverUrl # <<>> THEN coverUrl ELSE @,
        !.cloudinaryCoverUrl = IF coverUrl # <<>> THEN coverUrl ELSE @]

PutBodies ==
    {b \in [title : {UNDEF, " B "}, category : {UNDEF, "Comics"}, isTrending : {UNDEF, "true"},
            pdf : BOOLEAN, cover : BOOLEAN] :
        b.pdf \/ b.cover => b.title = UNDEF /\ b.category = UNDEF /\ b.isTrending = UNDEF}

PlainPut ==
    [title |-> UNDEF, category |-> UNDEF, isTrending |-> UNDEF, pdf |-> FALSE, cover |-> FALSE]

PutBookHandler(r, flt) ==
    LET now   == clock + 1
        \* upload_stream is called whether or not Cloudinary is configured
        cdnOk == hasCloudinaryCredentials /\ Ok(flt, "cdn")
        Stored(books, i, up, book, ctx) ==
            /\ cloud' = IF hasCloudinaryCredentials
                        THEN ExplicitContext(
                                 IF r.body.cover
                                 THEN cloud \cup {[pid |-> PutCoverPid(now), ctx |-> ctx]}
                                 ELSE cloud,
                                 r.id, ctx, TRUE)
                        ELSE IF r.body.cover
                        THEN cloud \cup {[pid |-> PutCoverPid(now), ctx |-> ctx]}
                        ELSE cloud
            /\ saveBooks([books EXCEPT ![i] = book], up, flt)
            /\ SetAuth(AuthAfter(up, flt))
            /\ resp' = Response(200, [kind |-> "book", book |-> book])
        Updated(books, i, up, book) ==
            Stored(books, i, up, book, Context(book.title, book.category, book.isTrending))
        Uploaded(books, i, up) ==
            /\ clock < MaxClock
            /\ clock' = now
            /\ bucket' = up.bucket
            /\ IF (r.body.pdf /\ ~up.ok) \/ (r.body.cover /\ ~cdnOk)
               THEN \* an upload threw: 500, the list is not saved
                    /\ resp' = Response(500, NoBody)
                    /\ SetAuth(up)
                    /\ UNCHANGED <<localBooks, b2Json, cloud>>
               ELSE Updated(books, i, up,
                            UpdateSimpleFields(
                                ReplaceFiles(books[i], up.name,
                                             IF r.body.cover THEN SecureUrl(PutCoverPid(now))
                                             ELSE <<>>),
                                r.body.title, r.body.category, r.body.isTrending))
        Loaded(books, st1) ==
            IF IndexOf(books, r.id) = 0
            THEN /\ r.body = PlainPut
                 /\ resp' = Response(404, NoBody)
                 /\ SetAuth(st1)
                 /\ UNCHANGED <<localBooks, b2Json, bucket, cloud, clock>>
            ELSE Uploaded(books, IndexOf(books, r.id),
                          IF r.body.pdf THEN uploadPdfToB2(st1, bucket, PutPdfName(now), flt)
                          ELSE [ok |-> TRUE, name |-> <<>>, bucket |-> bucket,
                                auth |-> st1.auth, data |-> st1.data])
    IN  /\ r.body.pdf \/ Ok(flt, "put")
        /\ r.body.cover \/ Ok(flt, "cdn")
        /\ req' = r
        /\ UNCHANGED <<env, blogs, nextId, deletedOk, pending, b2Calls>>
        /\ Loaded(getBooks(AuthState, flt), AuthAfter(AuthState, flt))

PutBook ==
    \E id \in 1..MaxBooks, pw \in PwCases, body \in Bodies(PutBodies, PlainPut) :
        LET r == Request("PUT book", id, pw.h, pw.p, body)
        IN  IF verifyAdminPassword(r, FALSE)
            THEN /\ Drawn(r, PlainPut) /\ Answerable(id)
                 /\ \E flt \in Plans({"auth", "dl", "up", "put", "cdn"}) : PutBookHandler(r, flt)
            ELSE Unauthorized(r, PlainPut)

-----------------------------------------------------------------------------
(* PATCH /api/admin/books/:id/metadata *)

MetadataBodies ==
    [title : {UNDEF, " B "}, category : {UNDEF, "Comics"}, isTrending : {UNDEF}]

PlainMetadata == [title |-> UNDEF, category |-> UNDEF, isTrending |-> UNDEF]

PatchMetadataHandler(r, flt) ==
    LET now == clock + 1
        Updated(books, i, st1, book) ==
            /\ clock < MaxClock
            /\ clock' = now
            /\ cloud' = IF hasCloudinaryCredentials
                        THEN ExplicitContext(cloud, r.id,
                                 Context(book.title, book.category, book.isTrending),
                                 TRUE)
                        ELSE cloud
            /\ saveBooks([books EXCEPT ![i] = book], st1, flt)
            /\ resp' = Response(200, [kind |-> "book", book |-> book])
        Loaded(books, st1) ==
            /\ req' = r
            /\ SetAuth(st1)
            /\ UNCHANGED <<env, bucket, blogs, nextId, deletedOk, pending, b2Calls>>
            /\ IF IndexOf(books, r.id) = 0
               THEN /\ r.body = PlainMetadata
                    /\ resp' = Response(404, NoBody)
                    /\ UNCHANGED <<localBooks, b2Json, cloud, clock>>
               ELSE Updated(books, IndexOf(books, r.id), st1,
                            [UpdateSimpleFields(books[IndexOf(books, r.id)], r.body.title,
                                                r.body.category, r.body.isTrending)
                                EXCEPT !.updatedAt = now])
    IN  Loaded(getBooks(AuthState, flt), AuthAfter(AuthState, flt))

PatchMetadata ==
    \E id \in 1..MaxBooks, pw \in PwCases, body \in Bodies(MetadataBodies, PlainMetadata) :
        LET r == Request("PATCH metadata", id, pw.h, pw.p, body)
        IN  IF verifyAdminPassword(r, TRUE)
            THEN /\ Drawn(r, PlainMetadata) /\ Answerable(id)
                 /\ \E flt \in Plans({"auth", "dl", "up"}) : PatchMetadataHandler(r, flt)
            ELSE Unauthorized(r, PlainMetadata)

-----------------------------------------------------------------------------
(* DELETE /api/admin/books/:id *)

\* deleteByFileName(fileName) on acc = [bucket, attempted, deleted, errors];
\* failing: the names whose b2.deleteFileVersion call rejects.
deleteByFileName(acc, fileName, json, flt, failing) ==
    LET Tried(file, tried) ==
            IF file = NoFile \/ fileName \in failing
            THEN [tried EXCEPT !.errors = Append(@, fileName)]
            ELSE [tried EXCEPT !.bucket = @ \ {file}, !.deleted = Append(@, fileName)]
    IN  IF fileName = <<>> THEN acc
        ELSE IF ~Ok(flt, "ls") THEN [acc EXCEPT !.errors = Append(@, fileName)]
        ELSE Tried(Find(ListFileNames(AllFiles(acc.bucket, json), fileName, 10).files,
                        LAMBDA f : f.fileName = fileName),
                   [acc EXCEPT !.attempted = Append(@, fileName)])

\* for (const part of book.pdfParts) await deleteByFileName(part.b2FileName || part.fileName)
RECURSIVE DeleteParts(_, _, _, _, _)
DeleteParts(acc, parts, json, flt, failing) ==
    IF parts = <<>> THEN acc
    ELSE DeleteParts(deleteByFileName(acc, Or(Head(parts).b2FileName, Head(parts).fileName),
                                      json, flt, failing),
                     Tail(parts), json, flt, failing)

\* for (const f of files) deleteFileVersion(f), errors collected
RECURSIVE DeleteListed(_, _, _)
DeleteListed(acc, files, failing) ==
    IF files = <<>> THEN acc
    ELSE LET f == Head(files)
         IN  DeleteListed(IF f.fileName \in failing
                          THEN [acc EXCEPT !.errors = Append(@, f.fileName)]
                          ELSE [acc EXCEPT !.bucket = @ \ {f},
                                           !.deleted = Append(@, f.fileName)],
                          Tail(files), failing)

\* A pass of the loop that lists from the prefix again instead of from
\* nextFileName.
SweepIteration_fromPrefix(acc, prefix, startFileName, json, maxFileCount, failing) ==
    LET listed == ListFileNames(AllFiles(acc.bucket, json), prefix, maxFileCount)
        files  == SelectSeq(listed.files, LAMBDA f : StartsWith(f.fileName, prefix))
    IN  IF files = <<>>
        THEN [acc |-> acc, startFileName |-> startFileName, finished |-> TRUE]
        ELSE [acc           |-> DeleteListed(acc, files, failing),
              startFileName |-> listed.nextFileName,
              finished      |-> \/ listed.nextFileName = <<>>
                                \/ ~StartsWith(listed.nextFileName, prefix)]

\* One pass of the while (!finished) loop of the prefix sweep: a page of
\* maxFileCount names from startFileName; no file under the prefix ends the
\* loop; else every file of the page is deleted or its error recorded, and
\* the loop goes on from nextFileName unless there is none or it has left the
\* prefix.
SweepIteration(acc, prefix, startFileName, json, maxFileCount, failing) ==
    LET listed == ListFileNames(AllFiles(acc.bucket, json), startFileName, maxFileCount)
        files  == SelectSeq(listed.files, LAMBDA f : StartsWith(f.fileName, prefix))
    IN  IF files = <<>>
        THEN [acc |-> acc, startFileName |-> startFileName, finished |-> TRUE]
        ELSE [acc           |-> DeleteListed(acc, files, failing),
              startFileName |-> listed.nextFileName,
              finished      |-> \/ listed.nextFileName = <<>>
                                \/ ~StartsWith(listed.nextFileName, prefix)]

\* The prefix sweep of books/<id>/: the passes of the loop from startFileName
\* until one finishes it.
RECURSIVE PrefixSweep(_, _, _, _, _, _)
PrefixSweep(acc, prefix, startFileName, json, maxFileCount, failing) ==
    LET Continue(it) ==
            IF it.finished THEN it.acc
            ELSE PrefixSweep(it.acc, prefix, it.startFileName, json, maxFileCount, failing)
    IN  Continue(SweepIteration(acc, prefix, startFileName, json, maxFileCount, failing))

\* The parts loop when a failed deletion ends it.
RECURSIVE DeleteParts_failFast(_, _, _, _, _)
DeleteParts_failFast(acc, parts, json, flt, failing) ==
    IF parts = <<>> \/ acc.errors # <<>> THEN acc
    ELSE DeleteParts_failFast(deleteByFileName(acc, Or(Head(parts).b2FileName,
                                                       Head(parts).fileName),
                                               json, flt, failing),
                              Tail(parts), json, flt, failing)

\* The B2 part of a handler whose first failed deletion ends the B2 work.
DeleteBookFiles_failFast(book, st, flt, failing) ==
    LET acc0 == [bucket |-> bucket, attempted |-> <<>>, deleted |-> <<>>, errors |-> <<>>]
        Sweep(parts) ==
            IF ~Ok(flt, "ls") \/ parts.errors # <<>> THEN parts
            ELSE PrefixSweep(parts, BookPrefix(book.id), BookPrefix(book.id), b2Json, 1000,
                             failing)
    IN  IF ~hasB2Credentials \/ ~ensureB2Authorized(st, flt).ok THEN acc0
        ELSE Sweep(DeleteParts_failFast(
                       deleteByFileName(acc0, Or(book.b2FileName, book.fileName),
                                        b2Json, flt, failing),
                       book.pdfParts, b2Json, flt, failing))

\* The B2 part of the handler: nothing when B2 is not configured or the
\* authorization fails; else by name, then the parts, then the prefix sweep.
DeleteBookFiles(book, st, flt, failing) ==
    LET acc0 == [bucket |-> bucket, attempted |-> <<>>, deleted |-> <<>>, errors |-> <<>>]
        Sweep(parts) ==
            IF ~Ok(flt, "ls") THEN parts
            ELSE PrefixSweep(parts, BookPrefix(book.id), BookPrefix(book.id), b2Json, 1000,
                             failing)
    IN  IF ~hasB2Credentials \/ ~ensureB2Authorized(st, flt).ok THEN acc0
        ELSE Sweep(DeleteParts(deleteByFileName(acc0, Or(book.b2FileName, book.fileName),
                                                b2Json, flt, failing),
                               book.pdfParts, b2Json, flt, failing))

\* books.splice(index, 1)
Splice(books, i) == SubSeq(books, 1, i - 1) \o SubSeq(books, i + 1, Len(books))

\* failing: the names whose b2.deleteFileVersion call rejects.
DeleteBookFound(r, flt, books, i, failing) ==
    LET Cleaned(st1, b2) ==
            /\ clock < MaxClock
            /\ clock' = clock + 1
            /\ bucket' = b2.bucket
            /\ saveBooks(Splice(books, i), st1, flt)
            /\ deletedOk' = deletedOk \cup {r.id}
            /\ resp' = Response(200, [kind |-> "deleted", deletedId |-> r.id,
                                      attempted |-> b2.attempted,
                                      deleted |-> b2.deleted,
                                      errors |-> b2.errors])
    IN  Cleaned(AuthAfter(AuthState, flt),
                DeleteBookFiles(books[i], AuthAfter(AuthState, flt), flt, failing))

DeleteBookHandler(r, flt) ==
    LET Loaded(books) ==
            IF IndexOf(books, r.id) = 0
            THEN /\ resp' = Response(404, NoBody)
                 /\ UNCHANGED <<localBooks, b2Json, bucket, deletedOk, clock>>
            ELSE \E failing \in FailingSets({f.fileName : f \in bucket}) :
                     DeleteBookFound(r, flt, books, IndexOf(books, r.id), failing)
    IN  /\ req' = r
        /\ SetAuth(AuthAfter(AuthState, flt))
        /\ UNCHANGED <<env, cloud, blogs, nextId, pending, b2Calls>>
        /\ Loaded(getBooks(AuthState, flt))

DeleteBook ==
    \E id \in 1..MaxBooks, pw \in PwCases :
        LET r == Request("DELETE book", id, pw.h, pw.p, NoBody)
        IN  IF verifyAdminPassword(r, TRUE)
            THEN /\ Drawn(r, NoBody) /\ Answerable(id)
                 /\ \E flt \in Plans({"auth", "dl", "up", "ls"}) : DeleteBookHandler(r, flt)
            ELSE Unauthorized(r, NoBody)

-----------------------------------------------------------------------------
(* GET /api/books and GET /api/books/:id *)

\* `${protocol}://${req.get('host')}` followed by a path
OwnUrl(path) == <<"https://", "host">> \o path

\* /api/books/<id>/cover
CoverProxyPath(id) == <<"/api/books/", IdTok(id), "/cover">>

\* /api/books/<id>/pdf
PdfProxyPath(id) == <<"/api/books/", IdTok(id), "/pdf">>

\* /api/books/<id>/pdf/part/1
PartProxyPath(id) == <<"/api/books/", IdTok(id), "/pdf", "/part/", "1">>

\* One element of the GET /api/books answer.
ListedBook(book) ==
    [id |-> book.id, title |-> book.title, category |-> book.category,
     isTrending |-> book.isTrending,
     coverImage |-> Or(book.cloudinaryCoverUrl, book.coverImage),
     b2FileName |-> book.b2FileName, pdfParts |-> book.pdfParts]

GetBooksList ==
    \E flt \in Plans({"auth", "dl", "res", "lsb"}) :
        LET Listed(books) ==
                Response(200, [kind |-> "books",
                               books |-> [i \in 1..Len(books) |-> ListedBook(books[i])]])
        IN  /\ req' = Request("GET books", 0, "", "", NoBody)
            /\ resp' = Listed(getBooks(AuthState, flt))
            /\ SetAuth(AuthAfter(AuthState, flt))
            /\ UNCHANGED <<env, Stores, clock, nextId, deletedOk, pending, b2Calls>>

\* The coverImage of the GET /api/books/:id answer.
BookResponseCover(book, id) ==
    IF Truthy(book.cloudinaryCoverUrl) THEN book.cloudinaryCoverUrl
    ELSE IF Truthy(book.b2CoverFileName)
            \/ (Truthy(book.coverImage) /\ ~StartsWithSlash(book.coverImage)
                                        /\ ~StartsWithHttp(book.coverImage))
         THEN OwnUrl(CoverProxyPath(id))
    ELSE IF Truthy(book.coverImage) /\ StartsWithUploads(book.coverImage)
         THEN OwnUrl(book.coverImage)
    ELSE book.coverImage

GetBook ==
    \E id \in 1..MaxBooks, flt \in Plans({"auth", "dl"}) :
        LET Found(book) ==
                Response(200, [kind |-> "book",
                               book |-> [book EXCEPT
                                            !.coverImage = BookResponseCover(book, id)]])
            Loaded(books) ==
                IF IndexOf(books, id) = 0 THEN Response(404, NoBody)
                ELSE Found(books[IndexOf(books, id)])
        IN  /\ req' = Request("GET book", id, "", "", NoBody)
            /\ resp' = Loaded(getBooks(AuthState, flt))
            /\ SetAuth(AuthAfter(AuthState, flt))
            /\ UNCHANGED <<env, Stores, clock, nextId, deletedOk, pending, b2Calls>>

-----------------------------------------------------------------------------
(* Signed URLs and the B2 download endpoints *)

\* encodeURIComponent of one path segment of the model
EncodeURIComponent(t) ==
    CASE t = " "  -> "%20"
      [] t = "?"  -> "%3F"
      [] OTHER    -> t

\* encodeB2Path: split('/'), drop the empty segments, encode each, join('/').
RECURSIVE EncodeB2Path(_)
EncodeB2Path(fileName) ==
    IF fileName = <<>> THEN <<>>
    ELSE IF Head(fileName) = "/" /\ (Len(fileName) = 1 \/ fileName[2] = "/")
         THEN EncodeB2Path(Tail(fileName))
    ELSE <<EncodeURIComponent(Head(fileName))>> \o EncodeB2Path(Tail(fileName))

\* getB2DownloadBaseUrl
getB2DownloadBaseUrl(st) ==
    IF env.cdnBase THEN <<"https://", "cdn.example/">>
    ELSE IF st.data THEN <<"https://", "f000.backblazeb2.com/">>
    ELSE <<"https://", "f<bucketId>.backblazeb2.com/">>

\* `${baseUrl}/file/${bucketName}/${encodedPath}?Authorization=${token}`
SignedUrl(st, fileName) ==
    getB2DownloadBaseUrl(st) \o <<"file/", IF env.bucketName THEN "bucket/" ELSE "undefined/">>
        \o EncodeB2Path(fileName) \o <<"?Authorization=", "token">>

\* getB2CdnUrl(fileName): [threw, url], url = <<>> for null.
getB2CdnUrl(st, fileName, flt) ==
    IF ~hasB2Credentials \/ ~Truthy(fileName) \/ ~env.bucketName
    THEN [threw |-> FALSE, url |-> <<>>]
    ELSE IF ~ensureB2Authorized(st, flt).ok \/ ~Ok(flt, "tok")
    THEN [threw |-> TRUE, url |-> <<>>]
    ELSE [threw |-> FALSE, url |-> SignedUrl(AuthAfter(st, flt), fileName)]

\* The file a GET of a signed URL for fileName reaches: the bucket file whose
\* encoded path is the one in the URL, when the bucket name in the URL is right.
FileAtSignedUrl(bkt, fileName) ==
    LET hits == {f \in bkt : EncodeB2Path(f.fileName) = EncodeB2Path(fileName)}
    IN  IF env.bucketName /\ hits # {} THEN CHOOSE f \in hits : TRUE ELSE NoFile

\* What Backblaze answers to a download with this Range header:
\* <<>> no header -> 200; "bytes=0-100" -> 206 with Content-Range;
\* "bytes=9-" past the end -> 416, which axios rejects (validateStatus).
Ranges == {<<>>, <<"bytes=", "0-100">>, <<"bytes=", "9999-">>}

B2Status(range) ==
    IF range = <<>> THEN 200 ELSE IF range = <<"bytes=", "0-100">> THEN 206 ELSE 416

B2ContentRange(range) ==
    IF B2Status(range) = 206 THEN <<"bytes ", "0-100", "/*">> ELSE <<>>

-----------------------------------------------------------------------------
(* GET /api/books/:id/view *)

\* pdfParts.slice().sort((a, b) => a.partNumber - b.partNumber)
RECURSIVE SortParts(_)
SortParts(parts) ==
    IF parts = <<>> THEN <<>>
    ELSE LET i == CHOOSE k \in 1..Len(parts) :
                    /\ \A j \in 1..Len(parts) : parts[k].partNumber <= parts[j].partNumber
                    /\ \A j \in 1..(k - 1) : parts[j].partNumber # parts[k].partNumber
         IN  <<parts[i]>> \o SortParts(Splice(parts, i))

\* The parts with the URL getB2CdnUrl gives for each.
PartsWithUrls(parts, st, flt) ==
    [i \in 1..Len(parts) |->
        [partNumber |-> parts[i].partNumber, b2FileName |-> parts[i].b2FileName,
         viewUrl    |-> getB2CdnUrl(st, parts[i].b2FileName, flt).url]]

\* partsWithUrls.find(p => p.partNumber === 1)?.viewUrl
FirstPartUrl(withUrls) ==
    LET hits == {i \in 1..Len(withUrls) : withUrls[i].partNumber = 1}
    IN  IF hits = {} THEN <<>>
        ELSE withUrls[CHOOSE i \in hits : \A j \in hits : i <= j].viewUrl

ViewResponse(book, id, st, flt) ==
    LET cdnOn    == env.cdnBase /\ hasB2Credentials
        sorted   == SortParts(book.pdfParts)
        withUrls == PartsWithUrls(sorted, st, flt)
        threw    == \E i \in 1..Len(sorted) : getB2CdnUrl(st, sorted[i].b2FileName, flt).threw
        first    == FirstPartUrl(withUrls)
        fileName == Or(book.b2FileName, book.fileName)
        cdnUrl   == getB2CdnUrl(st, fileName, flt)
    IN  IF Len(book.pdfParts) > 0
        THEN IF cdnOn /\ threw THEN Response(500, NoBody)
             ELSE IF cdnOn /\ Truthy(first)
             THEN Response(200, [kind |-> "view", viewUrl |-> first, isSplit |-> TRUE])
             ELSE Response(200, [kind |-> "view", viewUrl |-> OwnUrl(PartProxyPath(id)),
                                 isSplit |-> TRUE])
        ELSE IF Truthy(fileName)
        THEN IF cdnOn /\ cdnUrl.threw THEN Response(500, NoBody)
             ELSE IF cdnOn /\ Truthy(cdnUrl.url)
             THEN Response(200, [kind |-> "view", viewUrl |-> cdnUrl.url, isSplit |-> FALSE])
             ELSE Response(200, [kind |-> "view", viewUrl |-> OwnUrl(PdfProxyPath(id)),
                                 isSplit |-> FALSE])
        ELSE Response(400, NoBody)

GetView ==
    \E id \in 1..MaxBooks, flt \in Plans({"auth", "dl", "tok"}) :
        LET books == getBooks(AuthState, flt)
            i     == IndexOf(books, id)
        IN  /\ req' = Request("GET view", id, "", "", NoBody)
            /\ resp' = IF i = 0 THEN Response(404, NoBody)
                       ELSE ViewResponse(books[i], id, AuthAfter(AuthState, flt), flt)
            /\ SetAuth(AuthAfter(AuthState, flt))
            /\ UNCHANGED <<env, Stores, clock, nextId, deletedOk, pending, b2Calls>>

-----------------------------------------------------------------------------
(* GET /api/books/:id/pdf and GET /api/books/:id/download: streaming one file *)

\* A streamed file: the status and headers the client gets, the Range header
\* that was sent to Backblaze (<<>> when none) and the path that served it.
Streamed(status, file, path, sentRange, contentRange) ==
    Response(status, [kind |-> "pdf", file |-> file, path |-> path,
                      sentRange |-> sentRange, contentRange |-> contentRange])

\* The signed-URL attempt: ensureB2Authorized, getDownloadAuthorization, the
\* signed URL, axios GET of it without any request header of the client.
\* needsBucketName: /pdf throws when B2_BUCKET_NAME is not set.
\* Result: ok, the file reached, and whether the failure was a 401 of the GET.
SignedUrlAttempt(fileName, st, flt, needsBucketName) ==
    LET a    == ensureB2Authorized(st, flt)
        file == FileAtSignedUrl(bucket, fileName)
        sent == a.ok /\ Ok(flt, "tok") /\ (needsBucketName => env.bucketName)
    IN  [ok     |-> sent /\ Ok(flt, "net") /\ file # NoFile,
         file   |-> file,
         is401  |-> sent /\ ~Ok(flt, "net") /\ Ok(flt, "unauth"),
         auth   |-> a.auth, data |-> a.data]

\* The fallback: listFileNames(startFileName: fileName, maxFileCount: 1), exact
\* match of the name, download by file id with the Range header of the request;
\* the status, Content-Range and Accept-Ranges of Backblaze are mirrored.
FileIdFallback(fileName, range, st, flt) ==
    LET a        == ensureB2Authorized(st, flt)
        listResp == ListFileNames(AllFiles(bucket, b2Json), fileName, 1)
        fileInfo == Find(listResp.files, LAMBDA f : f.fileName = fileName)
    IN  IF ~a.ok \/ ~Ok(flt, "ls") THEN Response(500, NoBody)
        ELSE IF fileInfo = NoFile THEN Response(404, NoBody)
        ELSE IF ~a.data THEN Response(500, NoBody)
        ELSE IF ~Ok(flt, "byId") \/ B2Status(range) \notin 200..299 THEN Response(500, NoBody)
        ELSE Streamed(B2Status(range), fileInfo.fileName, "fileId", range,
                      B2ContentRange(range))

\* The two paths in order; resetOn401: /pdf sets b2Authorized = false when the
\* signed URL was answered 401.  Result: [resp, auth, data].
StreamFile(fileName, range, st, flt, needsBucketName, resetOn401) ==
    LET try  == SignedUrlAttempt(fileName, st, flt, needsBucketName)
        st1  == [auth |-> try.auth /\ ~(resetOn401 /\ try.is401), data |-> try.data]
        st2  == AuthAfter(st1, flt)
    IN  IF try.ok
        THEN [resp |-> Streamed(200, try.file.fileName, "signedUrl", <<>>, <<>>),
              auth |-> try.auth, data |-> try.data]
        ELSE [resp |-> FileIdFallback(fileName, range, st1, flt),
              auth |-> st2.auth, data |-> st2.data]

GetPdf ==
    \E id \in 1..MaxBooks, range \in Ranges,
       flt \in Plans({"auth", "dl", "tok", "net", "unauth", "ls", "byId"}) :
        LET books    == getBooks(AuthState, flt)
            i        == IndexOf(books, id)
            st0      == AuthAfter(AuthState, flt)
            fileName == Or(books[i].b2FileName, books[i].fileName)
            out      == StreamFile(fileName, range, st0, flt, TRUE, TRUE)
        IN  /\ req' = Request("GET pdf", id, "", "", [kind |-> "get", range |-> range,
                                                      authorization |-> ""])
            /\ UNCHANGED <<env, Stores, clock, nextId, deletedOk, pending, b2Calls>>
            /\ IF i = 0
               THEN resp' = Response(404, NoBody) /\ SetAuth(st0)
               ELSE IF ~Truthy(fileName)
               THEN resp' = Response(400, NoBody) /\ SetAuth(st0)
               ELSE IF ~hasB2Credentials
               THEN resp' = Response(500, NoBody) /\ SetAuth(st0)
               ELSE resp' = out.resp /\ SetAuth([auth |-> out.auth, data |-> out.data])

-----------------------------------------------------------------------------
(* GET /api/books/:id/download *)

\* `Part_${part.partNumber}_${book.title || 'book'}.pdf`
PartFileName(partNumber, title) ==
    <<"Part_", ToString(partNumber), "_", IF title = "" THEN "book" ELSE title, ".pdf">>

\* The ZIP with the whole bucket listed for each part (no startFileName).
RECURSIVE ZipEntries_listAll(_, _, _, _)
ZipEntries_listAll(parts, title, flt, failing) ==
    IF parts = <<>> THEN <<>>
    ELSE LET part     == Head(parts)
             listed   == ListFileNames(AllFiles(bucket, b2Json), <<>>, 10000)
             fileInfo == Find(listed.files,
                              LAMBDA f : \/ f.fileName = part.b2FileName
                                         \/ Includes(f.fileName, part.b2FileName)
                                         \/ Includes(part.b2FileName, f.fileName))
             got      == /\ Truthy(part.b2FileName) /\ hasB2Credentials /\ Ok(flt, "ls")
                         /\ fileInfo # NoFile /\ fileInfo.fileName \notin failing
         IN  (IF got THEN <<[partNumber |-> part.partNumber, file |-> fileInfo.fileName,
                              name |-> PartFileName(part.partNumber, title)]>>
              ELSE <<>>) \o ZipEntries_listAll(Tail(parts), title, flt, failing)

\* The ZIP of a book in parts: for each part in partNumber order, the bucket is
\* listed from the part's name and the first file whose name equals, contains
\* or is contained in it is downloaded; a part that cannot be fetched is
\* skipped.  failing: the names whose downloadFileById rejects.
RECURSIVE ZipEntries(_, _, _, _)
ZipEntries(parts, title, flt, failing) ==
    IF parts = <<>> THEN <<>>
    ELSE LET part     == Head(parts)
             listed   == ListFileNames(AllFiles(bucket, b2Json), part.b2FileName, 10000)
             fileInfo == Find(listed.files,
                              LAMBDA f : \/ f.fileName = part.b2FileName
                                         \/ Includes(f.fileName, part.b2FileName)
                                         \/ Includes(part.b2FileName, f.fileName))
             got      == /\ Truthy(part.b2FileName) /\ hasB2Credentials /\ Ok(flt, "ls")
                         /\ fileInfo # NoFile /\ fileInfo.fileName \notin failing
         IN  (IF got THEN <<[partNumber |-> part.partNumber, file |-> fileInfo.fileName,
                              name |-> PartFileName(part.partNumber, title)]>>
              ELSE <<>>) \o ZipEntries(Tail(parts), title, flt, failing)

GetDownload ==
    \E id \in 1..MaxBooks, range \in Ranges, authorization \in {"", "Bearer user"},
       flt \in Plans({"auth", "dl", "tok", "net", "ls", "byId"}) :
        LET books    == getBooks(AuthState, flt)
            i        == IndexOf(books, id)
            st0      == AuthAfter(AuthState, flt)
            book     == books[i]
            fileName == Or(book.b2FileName, book.fileName)
            out      == StreamFile(fileName, range, st0, flt, FALSE, FALSE)
        IN  /\ req' = Request("GET download", id, "", "",
                              [kind |-> "get", range |-> range, authorization |-> authorization])
            /\ UNCHANGED <<env, Stores, clock, nextId, deletedOk, pending, b2Calls>>
            /\ authorization = "" \/ (range = <<>> /\ flt = NoFaults)
            /\ IF i = 0
               THEN resp' = Response(404, NoBody) /\ SetAuth(st0)
               ELSE IF Len(book.pdfParts) > 0
               THEN /\ SetAuth(st0)
                    /\ IF hasB2Credentials /\ ~ensureB2Authorized(st0, flt).ok
                       THEN resp' = Response(500, NoBody)
                       ELSE \E failing \in FailingSets({f.fileName : f \in bucket}) :
                                resp' = Response(200, [kind |-> "zip",
                                            entries |-> ZipEntries(SortParts(book.pdfParts),
                                                                   book.title, flt, failing)])
               ELSE IF ~Truthy(fileName)
               THEN resp' = Response(400, NoBody) /\ SetAuth(st0)
               ELSE IF ~hasB2Credentials
               THEN resp' = Response(500, NoBody) /\ SetAuth(st0)
               ELSE resp' = out.resp /\ SetAuth([auth |-> out.auth, data |-> out.data])

-----------------------------------------------------------------------------
(* Blogs: POST, PUT and DELETE /api/admin/blogs *)

\* uploadBufferToCloudinary resolves null when Cloudinary is not configured or
\* the upload fails; the handlers turn a null result into an error.
BlogImageUploaded(flt) == hasCloudinaryCredentials /\ Ok(flt, "cdn")

IndexOfBlog(list, id) ==
    LET hits == {i \in 1..Len(list) : list[i].id = id}
    IN  IF hits = {} THEN 0 ELSE CHOOSE i \in hits : \A j \in hits : i <= j

PlainBlog == [title |-> " A ", image |-> FALSE]

PostBlogHandler(r, flt) ==
    LET id   == nextId + 1
        now  == clock + 1
        blog == [id |-> id, title |-> Trim(r.body.title), category |-> "GENERAL",
                 image |-> IF r.body.image THEN SecureUrl(BlogImagePid(now)) ELSE <<>>]
    IN  IF r.body.title = ""
        THEN /\ flt = NoFaults /\ ~r.body.image
             /\ req' = r
             /\ resp' = Response(400, NoBody)
             /\ UNCHANGED <<env, Stores, b2Authorized, b2AuthData, clock, nextId,
                            deletedOk, pending, b2Calls>>
        ELSE /\ nextId < MaxBooks /\ clock < MaxClock
             /\ req' = r
             /\ nextId' = id
             /\ clock' = now
             /\ UNCHANGED <<env, localBooks, b2Json, bucket, b2Authorized, b2AuthData,
                            deletedOk, pending, b2Calls>>
             /\ IF r.body.image /\ ~BlogImageUploaded(flt)
                THEN /\ resp' = Response(500, NoBody)
                     /\ UNCHANGED <<blogs, cloud>>
                ELSE /\ cloud' = IF r.body.image
                                 THEN cloud \cup {[pid |-> BlogImagePid(now),
                                                   ctx |-> Context("", "", FALSE)]}
                                 ELSE cloud
                     /\ blogs' = Append(blogs, blog)
                     /\ resp' = Response(201, [kind |-> "blog", blog |-> blog])

PostBlog ==
    \E pw \in PwCases, body \in Bodies([title : {"", " A "}, image : BOOLEAN], PlainBlog) :
        LET r == Request("POST blog", 0, pw.h, pw.p, body)
        IN  IF verifyAdminPassword(r, FALSE)
            THEN /\ Drawn(r, PlainBlog)
                 /\ \E flt \in Plans({"cdn"}) : PostBlogHandler(r, flt)
            ELSE Unauthorized(r, PlainBlog)

PlainPutBlog == [title |-> UNDEF, image |-> FALSE]

PutBlogHandler(r, flt) ==
    LET i    == IndexOfBlog(blogs, r.id)
        now  == clock + 1
        blog == [blogs[i] EXCEPT
                    !.image = IF r.body.image THEN SecureUrl(BlogImagePid(now)) ELSE @,
                    !.title = IF r.body.title \notin {UNDEF, ""} THEN Trim(r.body.title) ELSE @]
    IN  /\ req' = r
        /\ UNCHANGED <<env, localBooks, b2Json, bucket, b2Authorized, b2AuthData,
                       nextId, deletedOk, pending, b2Calls>>
        /\ IF i = 0
           THEN /\ r.body = PlainPutBlog /\ flt = NoFaults
                /\ resp' = Response(404, NoBody)
                /\ UNCHANGED <<blogs, cloud, clock>>
           ELSE /\ clock < MaxClock
                /\ clock' = now
                /\ IF r.body.image /\ ~BlogImageUploaded(flt)
                   THEN /\ resp' = Response(500, NoBody)
                        /\ UNCHANGED <<blogs, cloud>>
                   ELSE /\ cloud' = IF r.body.image
                                    THEN cloud \cup {[pid |-> BlogImagePid(now),
                                                      ctx |-> Context("", "", FALSE)]}
                                    ELSE cloud
                        /\ blogs' = [blogs EXCEPT ![i] = blog]
                        /\ resp' = Response(200, [kind |-> "blog", blog |-> blog])

PutBlog ==
    \E id \in 1..MaxBooks, pw \in PwCases,
       body \in Bodies([title : {UNDEF, "", " B "}, image : BOOLEAN], PlainPutBlog) :
        LET r == Request("PUT blog", id, pw.h, pw.p, body)
        IN  IF verifyAdminPassword(r, FALSE)
            THEN /\ Drawn(r, PlainPutBlog)
                 /\ \E flt \in Plans({"cdn"}) : PutBlogHandler(r, flt)
            ELSE Unauthorized(r, PlainPutBlog)

DeleteBlogHandler(r, flt) ==
    LET i == IndexOfBlog(blogs, r.id)
    IN  /\ req' = r
        /\ UNCHANGED <<env, localBooks, b2Json, bucket, cloud, b2Authorized,
                       b2AuthData, nextId, deletedOk, pending, b2Calls>>
        /\ IF i = 0
           THEN resp' = Response(404, NoBody) /\ UNCHANGED <<blogs, clock>>
           ELSE /\ clock < MaxClock
                /\ clock' = clock + 1
                /\ blogs' = Splice(blogs, i)
                /\ resp' = Response(200, [kind |-> "deleted", deletedId |-> r.id])

DeleteBlog ==
    \E id \in 1..MaxBooks, pw \in PwCases :
        LET r == Request("DELETE blog", id, pw.h, pw.p, NoBody)
        IN  IF verifyAdminPassword(r, TRUE)
            THEN /\ Drawn(r, NoBody)
                 /\ \E flt \in {NoFaults} : DeleteBlogHandler(r, flt)
            ELSE Unauthorized(r, NoBody)

-----------------------------------------------------------------------------
(* The current server: start-up and requests *)

\* process.env as the code reads it: B2 credentials complete, Cloudinary
\* credentials complete, B2_CDN_BASE_URL set, B2_BUCKET_NAME set.
Envs == [b2 : BOOLEAN, cloudinary : BOOLEAN, cdnBase : BOOLEAN, bucketName : BOOLEAN]

NoRequest == Request("none", 0, "", "", NoBody)

\* The catalogue the server is started on is what earlier runs of it left:
\* books as POST /api/admin/books stores them (one PDF, or MaxParts parts, or no
\* file when B2 is not configured) and as PUT leaves them after replacing the
\* PDF and the cover, all written at Date.now() = 0.
SeedCover(id) ==
    IF env.cloudinary THEN SecureUrl(PostCoverPid(id)) ELSE PlaceholderCover

SeedParts(id) ==
    [i \in 1..MaxParts |-> [partNumber |-> i, b2FileName |-> PostPartName(id, i, 0),
                            fileName |-> PostPartName(id, i, 0)]]

SeedBook(id, kind) ==
    LET onePdf == Book(id, "A", "General", FALSE, 0, PostPdfName(id, 0), <<>>,
                       SeedCover(id), <<>>)
    IN  CASE kind = "pdf"      -> onePdf
          [] kind = "parts"    -> Book(id, "A", "General", FALSE, 0, <<>>, SeedParts(id),
                                       SeedCover(id), <<>>)
          [] kind = "replaced" -> ReplaceFiles(onePdf, PutPdfName(0),
                                      IF env.cloudinary THEN SecureUrl(PutCoverPid(0)) ELSE <<>>)
          [] OTHER             -> Book(id, "A", "General", FALSE, 0, <<>>, <<>>,
                                       SeedCover(id), <<>>)

\* The kind of the book with this id in a catalogue of n books: the first had
\* its PDF and cover replaced when it is alone, the last one is in parts.
SeedKind(i, n) ==
    IF ~env.b2 THEN "none"
    ELSE IF n = 1 THEN "replaced"
    ELSE IF i = n THEN "parts"
    ELSE "pdf"

\* Catalogues of 0..MaxBooks books with ids 1, 2, ...
Catalogues == {[i \in 1..n |-> SeedBook(i, SeedKind(i, n))] : n \in 0..MaxBooks}

\* The B2 files the uploads of these books left, in upload order.
RECURSIVE SeedNames(_)
SeedNames(books) ==
    IF books = <<>> THEN <<>>
    ELSE LET b == Head(books)
         IN  (IF b.b2FileName = PutPdfName(0) THEN <<PostPdfName(b.id, 0), PutPdfName(0)>>
              ELSE IF Truthy(b.b2FileName) THEN <<b.b2FileName>>
              ELSE [i \in 1..Len(b.pdfParts) |-> b.pdfParts[i].b2FileName])
             \o SeedNames(Tail(books))

RECURSIVE PutAll(_, _)
PutAll(bkt, names) ==
    IF names = <<>> THEN bkt ELSE PutAll(B2Put(bkt, Head(names)), Tail(names))

\* The Cloudinary covers the uploads of these books left.
SeedAssets(books) ==
    IF ~env.cloudinary THEN {}
    ELSE UNION {{[pid |-> PostCoverPid(books[i].id), ctx |-> Context("A", "General", FALSE)]}
                \cup (IF Truthy(books[i].cloudinaryCoverUrl)
                      THEN {[pid |-> PutCoverPid(0), ctx |-> Context("A", "General", FALSE)]}
                      ELSE {}) : i \in 1..Len(books)}

\* One blog when the catalogue leaves an id for it.
SeedBlogs(n) ==
    IF n \in 1..(MaxBooks - 1)
    THEN <<[id |-> n + 1, title |-> "A", category |-> "GENERAL", image |-> <<>>]>>
    ELSE <<>>

\* After start-up: the catalogue is in the local file and, with B2 configured,
\* also in data/books.json; the start-up ensureB2Authorized (only attempted
\* with B2 credentials) has succeeded, or, when authorized allows FALSE, has
\* failed, which the start-up code only logs.
Started(envs, authorized) ==
    /\ env \in envs
    /\ localBooks \in Catalogues
    /\ b2Json = IF env.b2 THEN localBooks ELSE NoJson
    /\ bucket = PutAll({}, SeedNames(localBooks))
    /\ cloud = SeedAssets(localBooks)
    /\ blogs = SeedBlogs(Len(localBooks))
    /\ b2Authorized \in {env.b2 /\ a : a \in authorized}
    /\ b2AuthData = b2Authorized
    /\ clock = 0
    /\ nextId = Len(localBooks) + Len(blogs)
    /\ req = NoRequest
    /\ resp = Response(0, NoBody)
    /\ deletedOk = {}
    /\ pending = {}
    /\ b2Calls = <<>>

\* The catalogue: the admin routes and the two GETs that read the list back.
\* These handlers read no other setting than the B2 and Cloudinary credentials.
Init == Started({e \in Envs : ~e.cdnBase /\ e.bucketName = e.b2}, BOOLEAN)

Next ==
    \/ PostBook
    \/ PutBook
    \/ PatchMetadata
    \/ DeleteBook
    \/ PatchTrending
    \/ PostBlog
    \/ PutBlog
    \/ DeleteBlog
    \/ GetBooksList
    \/ GetBook

Spec == Init /\ [][Next]_vars

\* The files: the routes that stream or point to the PDF of a book, under every
\* configuration, after a start-up authorization that succeeded or failed.
InitStream == Started(Envs, BOOLEAN)

NextStream ==
    \/ GetView
    \/ GetPdf
    \/ GetDownload

SpecStream == InitStream /\ [][NextStream]_vars

\* The download of a book in parts, B2 authorized, from buckets that hold, for
\* each part, the file of that name or not, and files whose names contain it
\* or are contained in it, before and after it in the listing.
ZipFileNames ==
    [i \in 1..MaxParts |-> PostPartName(1, i, 0)]
    \o [i \in 1..MaxParts |-> PostPartName(1, i, 0) \o <<".bak">>]
    \o << <<"x.pdf">>, <<"-", "x.pdf">> >>

ZipBuckets ==
    {PutAll({}, SelectSeq(ZipFileNames, LAMBDA n : n \in S)) :
        S \in SUBSET {ZipFileNames[k] : k \in 1..Len(ZipFileNames)}}

InitZip ==
    /\ env = [b2 |-> TRUE, cloudinary |-> FALSE, cdnBase |-> FALSE, bucketName |-> TRUE]
    /\ localBooks = <<SeedBook(1, "parts")>>
    /\ b2Json = localBooks
    /\ bucket \in ZipBuckets
    /\ cloud = {}
    /\ blogs = <<>>
    /\ b2Authorized = TRUE
    /\ b2AuthData = b2Authorized
    /\ clock = 0
    /\ nextId = 1
    /\ req = NoRequest
    /\ resp = Response(0, NoBody)
    /\ deletedOk = {}
    /\ pending = {}
    /\ b2Calls = <<>>

NextZip == GetDownload

SpecZip == InitZip /\ [][NextZip]_vars

-----------------------------------------------------------------------------
(* GET /api/books/:id/cover (src/server/index.js) *)

Redirect(location) == Response(302, [kind |-> "redirect", location |-> location])

\* Variant of CoverSource that looks for a B2 file name before it looks for a
\* URL; the resolution order below must tell it from CoverSource.
CoverSource_b2First(book) ==
    LET coverImageUrl == Or(book.cloudinaryCoverUrl, book.coverImage)
    IN  IF \/ Truthy(book.b2CoverFileName)
           \/ (Truthy(book.coverImage) /\ ~StartsWithSlash(book.coverImage))
        THEN [via |-> "b2", to |-> Or(book.b2CoverFileName, book.coverImage)]
        ELSE IF Truthy(coverImageUrl) /\ StartsWithHttp(coverImageUrl)
        THEN [via |-> "redirect", to |-> coverImageUrl]
        ELSE IF Truthy(book.coverImage) /\ StartsWithUploads(book.coverImage)
        THEN [via |-> "redirect", to |-> book.coverImage]
        ELSE [via |-> "none", to |-> <<>>]

\* The three tests of the handler in its order: where the cover comes from.
CoverSource(book) ==
    LET coverImageUrl == Or(book.cloudinaryCoverUrl, book.coverImage)
    IN  IF Truthy(coverImageUrl) /\ StartsWithHttp(coverImageUrl)
        THEN [via |-> "redirect", to |-> coverImageUrl]
        ELSE IF \/ Truthy(book.b2CoverFileName)
                \/ (Truthy(book.coverImage) /\ ~StartsWithSlash(book.coverImage))
        THEN [via |-> "b2", to |-> Or(book.b2CoverFileName, book.coverImage)]
        ELSE IF Truthy(book.coverImage) /\ StartsWithUploads(book.coverImage)
        THEN [via |-> "redirect", to |-> book.coverImage]
        ELSE [via |-> "none", to |-> <<>>]

\* The B2 branch: ensureB2Authorized, getDownloadAuthorization, axios GET of the
\* signed URL, the body piped to the client; any failure is the 500 of the
\* catch.  Result: [resp, auth, data].
StreamCover(fileName, st, flt) ==
    LET Piped(try) ==
            [resp |-> IF try.ok
                      THEN Response(200, [kind |-> "image", file |-> try.file.fileName])
                      ELSE Response(500, NoBody),
             auth |-> try.auth, data |-> try.data]
    IN  Piped(SignedUrlAttempt(fileName, st, flt, FALSE))

GetCoverHandler(id, flt) ==
    LET Resolved(src, st0) ==
            IF src.via = "redirect" THEN resp' = Redirect(src.to) /\ SetAuth(st0)
            ELSE IF src.via = "b2"
            THEN LET Sent(out) == /\ resp' = out.resp
                                  /\ SetAuth([auth |-> out.auth, data |-> out.data])
                 IN  Sent(StreamCover(src.to, st0, flt))
            ELSE resp' = Response(404, NoBody) /\ SetAuth(st0)
        Loaded(books, st0) ==
            IF IndexOf(books, id) = 0
            THEN resp' = Response(404, NoBody) /\ SetAuth(st0)
            ELSE Resolved(CoverSource(books[IndexOf(books, id)]), st0)
    IN  /\ req' = Request("GET cover", id, "", "", NoBody)
        /\ Loaded(getBooks(AuthState, flt), AuthAfter(AuthState, flt))
        /\ UNCHANGED <<env, Stores, clock, nextId, deletedOk, pending, b2Calls>>

GetCover ==
    \E id \in 1..MaxBooks, flt \in Plans({"auth", "dl", "tok", "net"}) :
        GetCoverHandler(id, flt)

\* The cover fields of the records the handler provides for: the URLs this
\* server stores (Cloudinary secure_url, the placeholder), and what records
\* written by earlier versions hold: a plain http URL, the name of a cover in
\* B2 (in b2CoverFileName or in coverImage), a path under /uploads, another
\* path, nothing.
CoverUrls == {<<>>, SecureUrl(PostCoverPid(1))}

CoverImages ==
    {<<>>, PlaceholderCover, <<"http://", "covers/", "c.jpg">>, <<"old/", "c.jpg">>,
     <<"/uploads", "/", "covers/", "c.jpg">>, <<"/", "covers/", "c.jpg">>}

CoverFileNames == {<<>>, <<"covers/", "c.jpg">>}

CoverBook(cloudinaryCoverUrl, coverImage, b2CoverFileName) ==
    [Book(1, "A", "General", FALSE, 0, <<>>, <<>>, coverImage, cloudinaryCoverUrl)
        EXCEPT !.b2CoverFileName = b2CoverFileName]

\* The covers in the bucket: every subset of the two names.
CoverBuckets ==
    {PutAll({}, names) : names \in {<<>>, <<<<"covers/", "c.jpg">>>>, <<<<"old/", "c.jpg">>>>,
                                    <<<<"covers/", "c.jpg">>, <<"old/", "c.jpg">>>>}}

InitCover ==
    /\ env \in {e \in Envs : ~e.cloudinary /\ ~e.cdnBase}
    /\ localBooks \in {<<CoverBook(u, c, f)>> :
                          u \in CoverUrls, c \in CoverImages, f \in CoverFileNames}
    /\ b2Json = IF env.b2 THEN localBooks ELSE NoJson
    /\ bucket \in IF env.b2 THEN CoverBuckets ELSE {{}}
    /\ cloud = {}
    /\ blogs = <<>>
    /\ b2Authorized \in {env.b2, FALSE}
    /\ b2AuthData = b2Authorized
    /\ clock = 0
    /\ nextId = 1
    /\ req = NoRequest
    /\ resp = Response(0, NoBody)
    /\ deletedOk = {}
    /\ pending = {}
    /\ b2Calls = <<>>

NextCover == GetCover

SpecCover == InitCover /\ [][NextCover]_vars

-----------------------------------------------------------------------------
(* Interleaved admin requests (src/server/index.js): every handler awaits
   getBooks, changes the array it got and awaits saveBooks with it; the event
   loop runs other requests during each await. *)

\* A request that has read the list: the position it arrived at, its route and
\* id, the array getBooks returned to it, and the status it was answered with
\* (0 until then).
Handling(n, route, id, books, status) ==
    [n |-> n, route |-> route, id |-> id, books |-> books, status |-> status]

RaceRoutes == {"POST book", "PATCH metadata", "DELETE book"}

RaceBody(route) ==
    IF route = "POST book" THEN PlainPost
    ELSE IF route = "PATCH metadata" THEN [PlainMetadata EXCEPT !.title = " B "]
    ELSE NoBody

RaceRequest(h) == Request(h.route, h.id, ADMIN_PASSWORD, "", RaceBody(h.route))

\* The handler up to `const books = await getBooks()`; POST then generates its
\* bookId, the routes of one book answer 404 when findIndex gives -1.
ReadBooks ==
    \E route \in RaceRoutes, id \in 1..MaxBooks, flt \in Plans({"auth", "dl"}) :
        LET n == Cardinality(pending) + 1
            Read(books) ==
                IF route = "POST book"
                THEN /\ id = 1
                     /\ nextId' = nextId + 1
                     /\ pending' = pending \cup {Handling(n, route, nextId + 1, books, 0)}
                     /\ UNCHANGED <<req, resp>>
                ELSE IF IndexOf(books, id) = 0
                THEN /\ pending' = pending \cup {Handling(n, route, id, books, 404)}
                     /\ req' = RaceRequest(Handling(n, route, id, books, 404))
                     /\ resp' = Response(404, NoBody)
                     /\ UNCHANGED nextId
                ELSE /\ pending' = pending \cup {Handling(n, route, id, books, 0)}
                     /\ UNCHANGED <<nextId, req, resp>>
        IN  /\ n <= MaxRequests
            /\ Read(getBooks(AuthState, flt))
            /\ SetAuth(AuthAfter(AuthState, flt))
            /\ UNCHANGED <<env, Stores, clock, deletedOk, b2Calls>>

\* Variant of OwnCopy in which the handler changes the list as it is persisted
\* when it saves; the lost-update property below must tell it from OwnCopy.
OwnCopy_reread(h) == localBooks

\* The array the handler changes and saves: the one its getBooks returned.
OwnCopy(h) == h.books

\* The rest of a handler, from its own copy of the list to the answer:
\* books.push(bookData) / books[index] = updated book / the B2 deletions and
\* books.splice(index, 1); then saveBooks(books) and the answer.
SaveBooks(h, flt) ==
    LET now  == clock + 1
        Answered(status, body) ==
            /\ req' = RaceRequest(h)
            /\ resp' = Response(status, body)
            /\ pending' = (pending \ {h}) \cup {[h EXCEPT !.status = status]}
            /\ clock' = now
            /\ UNCHANGED <<env, cloud, blogs, nextId, b2Calls>>
        Posted(books, book) ==
            /\ saveBooks(Append(books, book), AuthState, flt)
            /\ SetAuth(AuthAfter(AuthState, flt))
            /\ Answered(201, [kind |-> "book", book |-> book])
            /\ UNCHANGED <<bucket, deletedOk>>
        Patched(books, i, book) ==
            /\ saveBooks([books EXCEPT ![i] = book], AuthState, flt)
            /\ SetAuth(AuthAfter(AuthState, flt))
            /\ Answered(200, [kind |-> "book", book |-> book])
            /\ UNCHANGED <<bucket, deletedOk>>
        Deleted(books, i, st1, b2) ==
            /\ bucket' = b2.bucket
            /\ saveBooks(Splice(books, i), st1, flt)
            /\ SetAuth(st1)
            /\ deletedOk' = deletedOk \cup {h.id}
            /\ Answered(200, [kind |-> "deleted", deletedId |-> h.id,
                              attempted |-> b2.attempted, deleted |-> b2.deleted,
                              errors |-> b2.errors])
        Changed(books, i) ==
            IF h.route = "POST book"
            THEN Posted(books, Book(h.id, Trim(PlainPost.title), CategoryOrGeneral(UNDEF),
                                    FALSE, now, <<>>, <<>>, PlaceholderCover, <<>>))
            ELSE IF i = 0
            THEN \* the record is not in the copy that is saved
                 /\ Answered(404, NoBody)
                 /\ UNCHANGED <<localBooks, b2Json, bucket, deletedOk, b2Authorized,
                                b2AuthData>>
            ELSE IF h.route = "PATCH metadata"
            THEN Patched(books, i, [UpdateSimpleFields(books[i], " B ", UNDEF, UNDEF)
                                       EXCEPT !.updatedAt = now])
            ELSE Deleted(books, i, AuthAfter(AuthState, flt),
                         DeleteBookFiles(books[i], AuthState, flt, {}))
    IN  Changed(OwnCopy(h), IndexOf(OwnCopy(h), h.id))

HandlerSaves ==
    \E h \in pending :
        /\ h.status = 0
        /\ \E flt \in Plans(IF h.route = "DELETE book" THEN {"auth", "up", "ls"}
                            ELSE {"auth", "up"}) : SaveBooks(h, flt)

InitRace ==
    /\ Started({e \in Envs : ~e.cloudinary /\ ~e.cdnBase /\ e.bucketName = e.b2}, BOOLEAN)

NextRace ==
    \/ ReadBooks
    \/ HandlerSaves

SpecRace == InitRace /\ [][NextRace]_vars

\* The same handlers one request at a time: a request is taken up only when
\* every earlier one has been answered.
Idle == \A h \in pending : h.status # 0

TakeRequest == Idle /\ ReadBooks

NextSeq ==
    \/ TakeRequest
    \/ HandlerSaves

SpecSeq == InitRace /\ [][NextSeq]_vars

-----------------------------------------------------------------------------
(* The sources of getBooks (src/server/index.js): data/books.json, the local
   books.json and the providers, each present or not *)

\* The catalogue as another instance of the server left it in data/books.json.
Retitled(books) == [i \in 1..Len(books) |-> [books[i] EXCEPT !.title = "B"]]

InitBooks ==
    /\ env \in {e \in Envs : ~e.cdnBase /\ e.bucketName = e.b2}
    /\ localBooks \in {NoJson} \cup Catalogues
    /\ b2Json \in IF env.b2 THEN {NoJson} \cup {Retitled(books) : books \in Catalogues}
                  ELSE {NoJson}
    /\ bucket \in {{}} \cup {PutAll({}, SeedNames(books)) : books \in Catalogues}
    /\ env.b2 \/ bucket = {}
    /\ cloud \in {SeedAssets(books) : books \in Catalogues}
    /\ blogs = <<>>
    /\ b2Authorized \in {env.b2, FALSE}
    /\ b2AuthData = b2Authorized
    /\ clock = 0
    /\ nextId = MaxBooks
    /\ req = NoRequest
    /\ resp = Response(0, NoBody)
    /\ deletedOk = {}
    /\ pending = {}
    /\ b2Calls = <<>>

NextBooks == GetBooksList

SpecBooks == InitBooks /\ [][NextBooks]_vars

-----------------------------------------------------------------------------
(* ensureB2Authorized, call by call: the start-up code and every handler that
   uses B2 call it, and a call that finds b2Authorized false awaits
   b2.authorize, during which other calls are made and return. *)

\* Call n of ensureB2Authorized: at "authorize" while b2.authorize is awaited,
\* then "returned" or "threw"; response: what b2.authorize answered.
Caller(n, at, response) == [route |-> "ensureB2Authorized", n |-> n, at |-> at,
                            response |-> response]

\* b2.authorize resolves with data, resolves without data, or rejects.
AuthorizeResponses == {"data", "nodata", "reject"}

\* The plan of a call whose b2.authorize answers response.
AuthorizePlan(response) == IF response = "data" THEN NoFaults ELSE {"auth"}

\* A call up to its first await: without credentials it throws, with
\* b2Authorized true it returns, else b2.authorize() is called.
EnsureCalled ==
    \E n \in 1..MaxCallers :
        LET now == ensureB2Authorized(AuthState, NoFaults)
        IN  /\ \A c \in pending : c.n = n => c.at # "authorize"
            /\ pending' = {c \in pending : c.n # n}
                  \cup {Caller(n, IF ~hasB2Credentials THEN "threw"
                                  ELSE IF b2Authorized /\ now.ok THEN "returned"
                                  ELSE "authorize",
                               "none")}
            /\ UNCHANGED <<env, localBooks, b2Json, bucket, cloud, blogs, b2Authorized,
                           b2AuthData, clock, nextId, req, resp, deletedOk, b2Calls>>

\* b2.authorize settles for a call: with data, b2Authorized = true and
\* b2AuthData = authResponse.data; else the call throws and writes nothing.
AuthorizeSettles ==
    \E c \in pending, response \in AuthorizeResponses :
        LET after == ensureB2Authorized([auth |-> FALSE, data |-> b2AuthData],
                                        AuthorizePlan(response))
        IN  /\ c.at = "authorize"
            /\ pending' = (pending \ {c})
                  \cup {Caller(c.n, IF after.ok THEN "returned" ELSE "threw", response)}
            /\ IF after.ok
               THEN SetAuth(after)
               ELSE UNCHANGED <<b2Authorized, b2AuthData>>
            /\ UNCHANGED <<env, localBooks, b2Json, bucket, cloud, blogs, clock, nextId,
                           req, resp, deletedOk, b2Calls>>

\* The catch of uploadPdfToB2 and the 401 branch of the /pdf catch:
\* b2Authorized = false; b2AuthData is not touched.
AuthorizationReset ==
    /\ hasB2Credentials
    /\ b2Authorized
    /\ b2Authorized' = FALSE
    /\ UNCHANGED <<env, localBooks, b2Json, bucket, cloud, blogs, b2AuthData, clock,
                   nextId, req, resp, deletedOk, pending, b2Calls>>

\* let b2Authorized = false; let b2AuthData = null; no call made yet.
InitAuth ==
    /\ env \in {e \in Envs : ~e.cloudinary /\ ~e.cdnBase /\ e.bucketName = e.b2}
    /\ localBooks = <<>>
    /\ b2Json = NoJson
    /\ bucket = {}
    /\ cloud = {}
    /\ blogs = <<>>
    /\ b2Authorized = FALSE
    /\ b2AuthData = FALSE
    /\ clock = 0
    /\ nextId = 0
    /\ req = NoRequest
    /\ resp = Response(0, NoBody)
    /\ deletedOk = {}
    /\ pending = {}
    /\ b2Calls = <<>>

NextAuth ==
    \/ EnsureCalled
    \/ AuthorizeSettles
    \/ AuthorizationReset

SpecAuth == InitAuth /\ [][NextAuth]_vars

-----------------------------------------------------------------------------
(* The prefix sweep of DELETE /api/admin/books/:id, one pass of its loop at a
   time.  The lists of b2Result are not kept: the loop does not read them. *)

\* The loop's variables for the DELETE of book id; paged: the loop has gone on
\* to another page; pass: the parity of the number of passes made, which tells
\* a pass that changes nothing else from no pass.
Sweeping(id, startFileName, finished, paged) ==
    [route |-> "sweep", id |-> id, startFileName |-> startFileName,
     finished |-> finished, paged |-> paged, pass |-> 0]

NoResult(bkt) == [bucket |-> bkt, attempted |-> <<>>, deleted |-> <<>>, errors |-> <<>>]

\* DELETE up to the loop: the record is found, B2 is authorized, the file and
\* the parts of the record are deleted by name; startFileName = prefix.
StartSweep ==
    \E id \in 1..MaxBooks, failing \in FailingSets({f.fileName : f \in bucket}) :
        LET i == IndexOf(getBooks(AuthState, NoFaults), id)
            ByName(book) ==
                DeleteParts(deleteByFileName(NoResult(bucket),
                                             Or(book.b2FileName, book.fileName),
                                             b2Json, NoFaults, failing),
                            book.pdfParts, b2Json, NoFaults, failing)
        IN  /\ pending = {}
            /\ i # 0
            /\ req' = Request("DELETE book", id, ADMIN_PASSWORD, "", NoBody)
            /\ bucket' = ByName(getBooks(AuthState, NoFaults)[i]).bucket
            /\ pending' = {Sweeping(id, BookPrefix(id), FALSE, FALSE)}
            /\ UNCHANGED <<env, localBooks, b2Json, cloud, blogs, b2Authorized, b2AuthData,
                           clock, nextId, resp, deletedOk, b2Calls>>

\* One pass of the loop; the listing may throw, which ends the sweep, and any
\* of the deleteFileVersion calls of the page may reject.
SweepPage ==
    \E sw \in pending, listed \in BOOLEAN :
        LET Passed(it) ==
                /\ bucket' = it.acc.bucket
                /\ pending' = {[sw EXCEPT !.startFileName = it.startFileName,
                                          !.finished = it.finished,
                                          !.paged = @ \/ ~it.finished,
                                          !.pass = 1 - @]}
        IN  /\ ~sw.finished
            /\ IF ~listed
               THEN /\ pending' = {[sw EXCEPT !.finished = TRUE, !.pass = 1 - @]}
                    /\ UNCHANGED bucket
               ELSE \E failing \in SUBSET {f.fileName : f \in bucket} :
                        Passed(SweepIteration(NoResult(bucket), BookPrefix(sw.id),
                                              sw.startFileName, b2Json, MaxPage, failing))
            /\ UNCHANGED <<env, localBooks, b2Json, cloud, blogs, b2Authorized, b2AuthData,
                           clock, nextId, req, resp, deletedOk, b2Calls>>

\* A catalogue with books, authorized, and a bucket that holds their files and
\* up to MaxStray more files under books/1/.
InitSweep ==
    /\ env = [b2 |-> TRUE, cloudinary |-> FALSE, cdnBase |-> FALSE, bucketName |-> TRUE]
    /\ localBooks \in Catalogues \ {<<>>}
    /\ b2Json = localBooks
    /\ bucket \in {PutAll({}, SeedNames(localBooks) \o [t \in 1..k |-> PostPdfName(1, t)]) :
                      k \in 0..MaxStray}
    /\ cloud = {}
    /\ blogs = <<>>
    /\ b2Authorized = TRUE
    /\ b2AuthData = TRUE
    /\ clock = 0
    /\ nextId = Len(localBooks)
    /\ req = NoRequest
    /\ resp = Response(0, NoBody)
    /\ deletedOk = {}
    /\ pending = {}
    /\ b2Calls = <<>>

NextSweep ==
    \/ StartSweep
    \/ SweepPage

\* Every B2 call of the loop returns or throws, so a loop that is not finished
\* makes its next pass.
SpecSweep == InitSweep /\ [][NextSweep]_vars /\ WF_vars(SweepPage)

-----------------------------------------------------------------------------
(* The file-id caching server (src/unnamed/part_013): the book list *)

\* One entry of b2Calls: the B2 API call, its argument (startFileName of a
\* listing, the file id of a download) and whether it returned or threw.
B2Call(call, arg, ok) == [call |-> call, arg |-> arg, ok |-> ok]

\* b2.authorize, called by ensureB2Authorized only while b2Authorized is false.
AuthorizeCalls(st, flt) ==
    IF hasB2Credentials /\ ~st.auth
    THEN <<B2Call("authorize", <<>>, Ok(flt, "auth"))>> ELSE <<>>

\* b2.listFileNames({startFileName: '', maxFileCount: 10000}).
ListAllCall(ok) == B2Call("listFileNames", <<>>, ok)

\* b2.downloadFileById({fileId}).
DownloadCall(fileId, ok) == B2Call("downloadFileById", <<ToString(fileId)>>, ok)

\* downloadBooksJsonFromB2 of this server: the parsed list, NoJson for null.
downloadBooksJsonFromB2_013(st, flt) ==
    LET Downloaded(a, info, calls) ==
            IF ~hasB2Credentials
            THEN [books |-> NoJson, auth |-> st.auth, data |-> st.data, calls |-> <<>>]
            ELSE [books |-> IF a.ok /\ info # NoFile /\ Ok(flt, "dl") THEN b2Json ELSE NoJson,
                  auth  |-> a.auth, data |-> a.data,
                  calls |-> IF ~a.ok THEN calls
                            ELSE calls \o <<B2Call("listFileNames", BooksJsonName, TRUE)>>
                                 \o (IF info = NoFile THEN <<>>
                                     ELSE <<DownloadCall(info.fileId, Ok(flt, "dl"))>>)]
    IN  Downloaded(ensureB2Authorized(st, flt),
                   Find(ListFileNames(AllFiles(bucket, b2Json), BooksJsonName, 10).files,
                        LAMBDA f : f.fileName = BooksJsonName),
                   AuthorizeCalls(st, flt))

\* getBooks of this server: the local file when it holds at least one book;
\* else data/books.json of B2, which is then written to the local file.
\* Result: the list, the local file afterwards, the authorization state and
\* the B2 calls made.
getBooks_013(st, flt) ==
    LET Synced(d) ==
            IF d.books # NoJson /\ Len(d.books) > 0
            THEN [books |-> d.books, local |-> d.books,
                  auth |-> d.auth, data |-> d.data, calls |-> d.calls]
            ELSE [books |-> <<>>, local |-> localBooks,
                  auth |-> d.auth, data |-> d.data, calls |-> d.calls]
    IN  IF Len(localBooks) > 0
        THEN [books |-> localBooks, local |-> localBooks,
              auth |-> st.auth, data |-> st.data, calls |-> <<>>]
        ELSE Synced(downloadBooksJsonFromB2_013(st, flt))

\* saveBooks of this server: the local file is written and the upload of
\* data/books.json is started, not awaited.
Upload(books) == Handling(0, "upload", 0, books, 0)

saveBooks_013(books) ==
    /\ localBooks' = books
    /\ pending' = pending \cup {Upload(books)}

\* A started upload of data/books.json finishes: uploadBooksJsonToB2 puts the
\* list in the bucket, or fails and is only logged.
UploadBooksJsonToB2 ==
    \E u \in pending, flt \in Plans({"auth", "up"}) :
        /\ u.route = "upload"
        /\ pending' = pending \ {u}
        /\ b2Json' = IF uploadBooksJsonToB2(AuthState, flt) THEN u.books ELSE b2Json
        /\ SetAuth(AuthAfter(AuthState, flt))
        /\ UNCHANGED <<env, localBooks, bucket, cloud, blogs, clock, nextId, req, resp,
                       deletedOk, b2Calls>>

-----------------------------------------------------------------------------
(* part_013: GET /api/books/:id/pdf and GET /api/books/:id/download *)

\* String.prototype.toLowerCase.
LowerTok(t) == IF t = "X.PDF" THEN "x.pdf" ELSE t

ToLowerCase(s) == [i \in 1..Len(s) |-> LowerTok(s[i])]

\* name.split('-').slice(1).join('-'): what follows the first '-', '' when the
\* name has none ('-' is a token of its own in the names of this server).
RECURSIVE AfterFirstDash(_)
AfterFirstDash(s) ==
    IF s = <<>> THEN <<>>
    ELSE IF Head(s) = "-" THEN Tail(s)
    ELSE AfterFirstDash(Tail(s))

\* The partial match of both routes.
PartialMatch(f, fileName) ==
    \/ Includes(f.fileName, fileName)
    \/ Includes(fileName, f.fileName)
    \/ EndsWith(f.fileName, fileName)
    \/ EndsWith(fileName, f.fileName)

\* fileInfo after the tiers: the result of the first find that found a file.
RECURSIVE FirstFound(_)
FirstFound(finds) ==
    IF finds = <<>> THEN NoFile
    ELSE IF Head(finds) # NoFile THEN Head(finds)
    ELSE FirstFound(Tail(finds))

ExactName(allFiles, fileName) == Find(allFiles, LAMBDA f : f.fileName = fileName)

SameNameIgnoringCase(allFiles, fileName) ==
    Find(allFiles, LAMBDA f : ToLowerCase(f.fileName) = ToLowerCase(fileName))

SameBaseName(allFiles, baseFileName) ==
    Find(allFiles, LAMBDA f : \/ AfterFirstDash(f.fileName) = baseFileName
                              \/ EndsWith(f.fileName, baseFileName))

PartialName(allFiles, fileName) == Find(allFiles, LAMBDA f : PartialMatch(f, fileName))

\* /pdf with the tiers tried in the opposite order.
PdfNameMatch_partialFirst(allFiles, fileName) ==
    FirstFound(<<PartialName(allFiles, fileName),
                 SameBaseName(allFiles, AfterFirstDash(fileName)),
                 SameNameIgnoringCase(allFiles, fileName),
                 ExactName(allFiles, fileName)>>)

\* /pdf: exact name, then case-insensitive, then the base name (the name
\* without its prefix up to the first '-'), then a partial match.
PdfNameMatch(allFiles, fileName) ==
    FirstFound(<<ExactName(allFiles, fileName),
                 SameNameIgnoringCase(allFiles, fileName),
                 SameBaseName(allFiles, AfterFirstDash(fileName)),
                 PartialName(allFiles, fileName)>>)

\* /download: exact name, then case-insensitive, then a partial match.
DownloadNameMatch(allFiles, fileName) ==
    FirstFound(<<ExactName(allFiles, fileName),
                 SameNameIgnoringCase(allFiles, fileName),
                 PartialName(allFiles, fileName)>>)

\* fileId = book.b2FileId || null; without one the whole bucket is listed and
\* found is the file the tiers of the route select in that listing.
FindFileId(book, found, flt) ==
    IF book.b2FileId # 0
    THEN [ok |-> TRUE, fileId |-> book.b2FileId,
          fileName |-> Or(book.b2FileName, book.fileName), calls |-> <<>>]
    ELSE IF ~Ok(flt, "ls")
    THEN [ok |-> FALSE, fileId |-> 0, fileName |-> <<>>, calls |-> <<ListAllCall(FALSE)>>]
    ELSE IF found = NoFile
    THEN [ok |-> FALSE, fileId |-> 0, fileName |-> <<>>, calls |-> <<ListAllCall(TRUE)>>]
    ELSE [ok |-> TRUE, fileId |-> found.fileId, fileName |-> found.fileName,
          calls |-> <<ListAllCall(TRUE)>>]

\* The cache write that forgets the file id.
CachedRecord_nameOnly(book, fileName, fileInfo) ==
    [book EXCEPT !.b2FileName = fileInfo.fileName, !.fileName = fileInfo.fileName]

\* The record /pdf writes back after a match: the file id, and the name of the
\* file in B2 when it differs from the stored one.
CachedRecord(book, fileName, fileInfo) ==
    [book EXCEPT !.b2FileId   = fileInfo.fileId,
                 !.b2FileName = IF fileInfo.fileName # fileName THEN fileInfo.fileName ELSE @,
                 !.fileName   = IF fileInfo.fileName # fileName THEN fileInfo.fileName ELSE @]

\* The content of a file starts with the PDF magic bytes.
HoldsPdf(f) == f.fileName[Len(f.fileName)] # "c.jpg"

\* b2.downloadFileById and the checks of the data it returns.
DownloadById(fileId, flt) ==
    LET Got(hits) ==
            IF Ok(flt, "byId") /\ hits # {}
            THEN [ok    |-> \A f \in hits : HoldsPdf(f),
                  file  |-> (CHOOSE f \in hits : TRUE).fileName,
                  calls |-> <<DownloadCall(fileId, TRUE)>>]
            ELSE [ok |-> FALSE, file |-> <<>>, calls |-> <<DownloadCall(fileId, FALSE)>>]
    IN  Got({f \in bucket : f.fileId = fileId})

\* The B2 branch of both routes for books[i]; cache: the route writes the file
\* id back (/pdf).  Result: the response, the list saved (<<>> when none is),
\* the authorization state and the B2 calls made.
ServeFromB2(books, i, found, cache, st, flt) ==
    LET Served(a, look, dl) ==
            [resp  |-> IF a.ok /\ look.ok /\ dl.ok
                       THEN Streamed(200, dl.file, "fileId", <<>>, <<>>)
                       ELSE Response(500, NoBody),
             saved |-> IF cache /\ a.ok /\ look.ok /\ books[i].b2FileId = 0
                       THEN [books EXCEPT ![i] =
                                CachedRecord(@, Or(@.b2FileName, @.fileName), look)]
                       ELSE <<>>,
             auth  |-> a.auth, data |-> a.data,
             calls |-> IF ~a.ok THEN <<>>
                       ELSE IF ~look.ok THEN look.calls
                       ELSE look.calls \o dl.calls]
        Looked(a, look) == Served(a, look, DownloadById(look.fileId, flt))
    IN  Looked(ensureB2Authorized(st, flt), FindFileId(books[i], found, flt))

\* The answer of both handlers once getBooks has returned g and the book has
\* index i in g.books (0: not found).  The catalogue of this server holds no
\* book in parts, so the ZIP branch of /download is not taken.
AnswerCached(r, cache, flt, g, i) ==
    LET Early(status, body) ==
            /\ resp' = Response(status, body)
            /\ localBooks' = g.local
            /\ b2Authorized' = g.auth
            /\ b2AuthData' = g.data
            /\ b2Calls' = g.calls
            /\ UNCHANGED pending
        FromB2(out) ==
            /\ resp' = out.resp
            /\ b2Authorized' = out.auth
            /\ b2AuthData' = out.data
            /\ b2Calls' = g.calls \o AuthorizeCalls(g, flt) \o out.calls
            /\ IF out.saved # <<>>
               THEN saveBooks_013(out.saved)
               ELSE localBooks' = g.local /\ UNCHANGED pending
        Found(book, fileName, allFiles) ==
            IF Truthy(book.pdfFilePath)
            THEN Early(200, [kind |-> "pdf", file |-> book.pdfFilePath, path |-> "local",
                             sentRange |-> <<>>, contentRange |-> <<>>])
            ELSE IF ~Truthy(fileName) THEN Early(400, NoBody)
            ELSE IF ~hasB2Credentials THEN Early(500, NoBody)
            ELSE FromB2(ServeFromB2(g.books, i,
                                    IF cache THEN PdfNameMatch(allFiles, fileName)
                                    ELSE DownloadNameMatch(allFiles, fileName),
                                    cache, g, flt))
    IN  /\ req' = r
        /\ UNCHANGED <<env, b2Json, bucket, cloud, blogs, clock, nextId, deletedOk>>
        /\ IF i = 0 THEN Early(404, NoBody)
           ELSE Found(g.books[i], Or(g.books[i].b2FileName, g.books[i].fileName),
                      ListFileNames(AllFiles(bucket, b2Json), <<>>, 10000).files)

ServeCached(route, id, cache, flt) ==
    LET Loaded(g) == AnswerCached(Request(route, id, "", "",
                                          [kind |-> "get", range |-> <<>>,
                                           authorization |-> ""]),
                                  cache, flt, g, IndexOf(g.books, id))
    IN  Loaded(getBooks_013(AuthState, flt))

GetPdfCached ==
    \E id \in 1..(MaxBooks + 1), flt \in Plans({"auth", "dl", "ls", "byId"}) :
        ServeCached("GET pdf", id, TRUE, flt)

GetDownloadCached ==
    \E id \in 1..(MaxBooks + 1), flt \in Plans({"auth", "dl", "ls", "byId"}) :
        ServeCached("GET download", id, FALSE, flt)

-----------------------------------------------------------------------------
(* part_013: start-up and requests *)

\* The name stored on the first book and the files a bucket can hold for it:
\* the same name, the name in another case, another file with the same base
\* name, a file whose name contains the stored one, and an unrelated file.
StoredName == <<"pdfs/", "1", "-", "x.pdf">>

CacheFileNames ==
    << StoredName,
       <<"pdfs/", "1", "-", "X.PDF">>,
       <<"pdfs/", "2", "-", "x.pdf">>,
       <<"old/", "pdfs/", "1", "-", "x.pdf", ".bak">>,
       <<"covers/", "c.jpg">> >>

\* The first book has its PDF in B2, the others were stored locally.
CacheBook(id) ==
    IF id = 1
    THEN Book(id, "A", "General", FALSE, 0, StoredName, <<>>, PlaceholderCover, <<>>)
    ELSE [Book(id, "A", "General", FALSE, 0, <<>>, <<>>, PlaceholderCover, <<>>)
              EXCEPT !.pdfFilePath = <<"/uploads/images/", IdTok(id), "-", "x.pdf">>]

CacheCatalogue == [id \in 1..MaxBooks |-> CacheBook(id)]

\* The buckets: any of the files above, uploaded in that order.
CacheBuckets ==
    {PutAll({}, SelectSeq(CacheFileNames, LAMBDA n : n \in S)) :
        S \in SUBSET {CacheFileNames[k] : k \in 1..Len(CacheFileNames)}}

\* After start-up the catalogue is in data/books.json when B2 is configured
\* and in the local file unless that was lost (a fresh deployment); the
\* start-up authorization has succeeded or failed.
InitCache ==
    /\ env \in {e \in Envs : ~e.cloudinary /\ ~e.cdnBase /\ e.bucketName = e.b2}
    /\ localBooks \in {CacheCatalogue, <<>>}
    /\ b2Json = IF env.b2 THEN CacheCatalogue ELSE NoJson
    /\ bucket \in IF env.b2 THEN CacheBuckets ELSE {{}}
    /\ cloud = {}
    /\ blogs = <<>>
    /\ b2Authorized \in {env.b2, FALSE}
    /\ b2AuthData = b2Authorized
    /\ clock = 0
    /\ nextId = MaxBooks
    /\ req = NoRequest
    /\ resp = Response(0, NoBody)
    /\ deletedOk = {}
    /\ pending = {}
    /\ b2Calls = <<>>

NextCache ==
    \/ GetPdfCached
    \/ GetDownloadCached
    \/ UploadBooksJsonToB2

SpecCache == InitCache /\ [][NextCache]_vars

-----------------------------------------------------------------------------
(* part_013: GET /api/books/:id/pdf interleaved with DELETE /api/admin/books/:id.
   The /pdf handler awaits getBooks, then b2.listFileNames, and saves the array
   it read with the file id written on it; the DELETE handler runs during
   these awaits. *)

\* /pdf up to the listing: getBooks has returned, the record has no local PDF
\* and no cached file id, and the handler awaits B2.
PdfReads ==
    \E id \in 1..(MaxBooks + 1), flt \in Plans({"auth", "dl"}) :
        LET Loaded(g, i) ==
                /\ i # 0
                /\ ~Truthy(g.books[i].pdfFilePath)
                /\ Truthy(Or(g.books[i].b2FileName, g.books[i].fileName))
                /\ hasB2Credentials
                /\ g.books[i].b2FileId = 0
                /\ localBooks' = g.local
                /\ b2Authorized' = g.auth
                /\ b2AuthData' = g.data
                /\ b2Calls' = g.calls
                /\ pending' = pending \cup {Handling(0, "GET pdf", id, g.books, 0)}
            Got(g) == Loaded(g, IndexOf(g.books, id))
        IN  /\ Cardinality({h \in pending : h.route = "GET pdf"}) < MaxRequests
            /\ Got(getBooks_013(AuthState, flt))
            /\ UNCHANGED <<env, b2Json, bucket, cloud, blogs, clock, nextId, req, resp,
                           deletedOk>>

\* /pdf from the listing on: the file is looked up and downloaded, and after a
\* match books[bookIndex] = updated; await saveBooks(books) on the array read.
PdfCaches ==
    \E h \in pending, flt \in Plans({"auth", "ls", "byId"}) :
        LET i == IndexOf(h.books, h.id)
            Answered(out) ==
                /\ resp' = out.resp
                /\ b2Authorized' = out.auth
                /\ b2AuthData' = out.data
                /\ b2Calls' = AuthorizeCalls(AuthState, flt) \o out.calls
                /\ IF out.saved # <<>>
                   THEN /\ localBooks' = out.saved
                        /\ pending' = (pending \ {h}) \cup {Upload(out.saved)}
                   ELSE /\ pending' = pending \ {h}
                        /\ UNCHANGED localBooks
        IN  /\ h.route = "GET pdf"
            /\ req' = Request("GET pdf", h.id, "", "",
                              [kind |-> "get", range |-> <<>>, authorization |-> ""])
            /\ Answered(ServeFromB2(h.books, i,
                            PdfNameMatch(ListFileNames(AllFiles(bucket, b2Json), <<>>,
                                                       10000).files,
                                         Or(h.books[i].b2FileName, h.books[i].fileName)),
                            TRUE, AuthState, flt))
            /\ UNCHANGED <<env, b2Json, bucket, cloud, blogs, clock, nextId, deletedOk>>

\* DELETE /api/admin/books/:id of this server with the admin password: getBooks,
\* findIndex, splice, saveBooks; no file is deleted.
DeleteBookCached ==
    \E id \in 1..(MaxBooks + 1), flt \in Plans({"auth", "dl"}) :
        LET Loaded(g, i) ==
                /\ b2Authorized' = g.auth
                /\ b2AuthData' = g.data
                /\ b2Calls' = g.calls
                /\ IF i = 0
                   THEN /\ resp' = Response(404, NoBody)
                        /\ localBooks' = g.local
                        /\ UNCHANGED <<pending, deletedOk>>
                   ELSE /\ resp' = Response(200, [kind |-> "deleted", deletedId |-> id,
                                                  attempted |-> <<>>, deleted |-> <<>>,
                                                  errors |-> <<>>])
                        /\ saveBooks_013(Splice(g.books, i))
                        /\ deletedOk' = deletedOk \cup {id}
            Got(g) == Loaded(g, IndexOf(g.books, id))
        IN  /\ req' = Request("DELETE book", id, ADMIN_PASSWORD, "", NoBody)
            /\ Got(getBooks_013(AuthState, flt))
            /\ UNCHANGED <<env, b2Json, bucket, cloud, blogs, clock, nextId>>

NextCacheRace ==
    \/ PdfReads
    \/ PdfCaches
    \/ DeleteBookCached
    \/ UploadBooksJsonToB2

\* Start-up with B2 configured and a bucket that holds the PDF of the first
\* book under its stored name, under that name in another case, or not at all.
InitCacheRace ==
    /\ InitCache
    /\ env.b2
    /\ bucket \in {PutAll({}, names) :
                      names \in {<<>>, <<CacheFileNames[1]>>, <<CacheFileNames[2]>>}}

SpecCacheRace == InitCacheRace /\ [][NextCacheRace]_vars

-----------------------------------------------------------------------------
(* Properties: the admin routes and the catalogue (Spec) *)

AdminRoutes ==
    {"POST book", "PUT book", "PATCH metadata", "PATCH trending", "DELETE book",
     "POST blog", "PUT blog", "DELETE blog"}

\* The persisted lists a handler can have loaded: the local books.json and,
\* when it exists, data/books.json.
PersistedLists == {localBooks} \cup (IF b2Json = NoJson THEN {} ELSE {b2Json})

\* The persisted records of book id.
PersistedRecords(id) ==
    UNION {{books[i] : i \in {j \in 1..Len(books) : books[j].id = id}} :
              books \in PersistedLists}

\* C1: an admin route answers 401 to a request that carries no admin password
\* or a wrong one, and the request changes neither the book list (local or B2),
\* nor the blog list, nor a file in B2 or Cloudinary.
C1_UnauthorizedChangesNothing ==
    [][(/\ req'.route \in AdminRoutes
        /\ req'.headerPw # ADMIN_PASSWORD
        /\ req'.bodyPw # ADMIN_PASSWORD)
       => (resp'.status = 401 /\ Stores' = Stores)]_vars

\* A PUT with a wrong password was answered 401 on a catalogue with books.
C1_Rejected ==
    /\ req.route = "PUT book" /\ req.headerPw = "letmein" /\ req.bodyPw = ""
    /\ resp.status = 401
    /\ Len(localBooks) > 0

\* C2: once DELETE /api/admin/books/:id has answered success for a book, no
\* GET /api/books lists that book and GET /api/books/:id answers 404 for it.
C2_DeletedStaysGone ==
    /\ req.route = "GET books"
          => \A i \in 1..Len(resp.body.books) : resp.body.books[i].id \notin deletedOk
    /\ (req.route = "GET book" /\ req.id \in deletedOk) => resp.status = 404

\* C3: a PUT without a pdf and without a coverImage file that succeeds stores
\* the record it loaded with the same b2FileName, fileName, pdfParts,
\* coverImage and cloudinaryCoverUrl; of the other fields only the metadata
\* fields present in the body change.
C3_PutWithoutFilesKeepsFiles ==
    [][(/\ req'.route = "PUT book" /\ resp'.status = 200
        /\ ~req'.body.pdf /\ ~req'.body.cover)
       => \E old \in PersistedRecords(req'.id) :
            LET new == localBooks'[IndexOf(localBooks', req'.id)]
            IN  /\ IndexOf(localBooks', req'.id) # 0
                /\ new.b2FileName = old.b2FileName
                /\ new.fileName = old.fileName
                /\ new.pdfParts = old.pdfParts
                /\ new.coverImage = old.coverImage
                /\ new.cloudinaryCoverUrl = old.cloudinaryCoverUrl
                /\ new = [old EXCEPT !.title = new.title, !.category = new.category,
                                     !.isTrending = new.isTrending]
                /\ req'.body.title = UNDEF => new.title = old.title
                /\ req'.body.category = UNDEF => new.category = old.category
                /\ req'.body.isTrending = UNDEF => new.isTrending = old.isTrending]_vars

\* A PUT that only carried a title was stored for a book that has a PDF.
C3_TitleOnlyPut ==
    /\ req.route = "PUT book" /\ resp.status = 200
    /\ ~req.body.pdf /\ ~req.body.cover
    /\ req.body.title = " B " /\ req.body.category = UNDEF
    /\ \E i \in 1..Len(localBooks) :
          /\ localBooks[i].id = req.id
          /\ localBooks[i].title = "B"
          /\ Truthy(localBooks[i].b2FileName)

\* C4: a PATCH trending that succeeds stores the list it loaded with the
\* isTrending of the addressed book set to the requested boolean and nothing
\* else changed.
C4_TrendingOnly ==
    [][(req'.route = "PATCH trending" /\ resp'.status = 200)
       => \E old \in PersistedLists, v \in BOOLEAN :
            /\ IndexOf(old, req'.id) # 0
            /\ localBooks' = [old EXCEPT ![IndexOf(old, req'.id)].isTrending = v]
            /\ req'.body.isTrending.t = "boolean"
                  => v = (req'.body.isTrending = JsBool(TRUE))]_vars

\* A PATCH trending with true was stored in a catalogue of several books.
C4_SetTrending ==
    /\ req.route = "PATCH trending" /\ resp.status = 200
    /\ req.body.isTrending = JsBool(TRUE)
    /\ Len(localBooks) > 1
    /\ \E i \in 1..Len(localBooks) : localBooks[i].id = req.id /\ localBooks[i].isTrending

\* The record GET /api/books/:id answered with has a cover of its own: a
\* Cloudinary URL, a B2 cover file, or a coverImage other than the placeholder.
HasCover(book) ==
    \/ Truthy(book.cloudinaryCoverUrl)
    \/ Truthy(book.b2CoverFileName)
    \/ Truthy(book.coverImage) /\ book.coverImage # PlaceholderCover

\* C6: for a stored book that has a cover, the coverImage GET /api/books/:id
\* returns is a URL of this server's cover proxy: it contains
\* /api/books/<id>/cover.
C6_CoverIsProxyUrl ==
    (req.route = "GET book" /\ resp.status = 200)
    => \A stored \in PersistedRecords(req.id) :
          (/\ [stored EXCEPT !.coverImage = resp.body.book.coverImage] = resp.body.book
           /\ HasCover(stored))
          => Includes(resp.body.book.coverImage, CoverProxyPath(req.id))

-----------------------------------------------------------------------------
(* Properties: the routes that serve the PDF (SpecStream) *)

\* C5: GET /api/books/:id/download requires authentication: a request without
\* credentials is never answered with the PDF or the ZIP.
C5_DownloadNeedsCredentials ==
    (req.route = "GET download" /\ req.body.authorization = "")
    => resp.body.kind \notin {"pdf", "zip"}

\* C7: the viewUrl of GET /api/books/:id/view is a URL of this server's PDF
\* proxy, /api/books/<id>/pdf or /api/books/<id>/pdf/part/1, under every
\* configuration.
C7_ViewUrlIsProxy ==
    (req.route = "GET view" /\ resp.status = 200)
    => resp.body.viewUrl \in {OwnUrl(PdfProxyPath(req.id)), OwnUrl(PartProxyPath(req.id))}

\* C8: when GET /api/books/:id/pdf carries a Range header and the file is
\* served, the range was forwarded to Backblaze and the answer mirrors the
\* status and Content-Range of Backblaze, on the signed-URL path and on the
\* file-id fallback.
C8_RangeIsProxied ==
    (req.route = "GET pdf" /\ req.body.range # <<>> /\ resp.body.kind = "pdf")
    => /\ resp.body.sentRange = req.body.range
       /\ resp.status = B2Status(req.body.range)
       /\ resp.body.contentRange = B2ContentRange(req.body.range)

-----------------------------------------------------------------------------
(* Properties: the file-id caching server (SpecCache) *)

\* The list a request of part_013 is answered from, when it finds the book.
CacheLoaded ==
    IF Len(localBooks) > 0 THEN localBooks
    ELSE IF b2Json = NoJson THEN <<>> ELSE b2Json

\* The step handles a request (the end of an upload takes it out of pending).
RequestStep == pending \subseteq pending'

ListedAll(calls) ==
    \E k \in 1..Len(calls) : calls[k].call = "listFileNames" /\ calls[k].arg = <<>>

ListingReturned(calls) == \E k \in 1..Len(calls) : calls[k] = ListAllCall(TRUE)

\* The files of the bucket that downloadFileById was called for.
DownloadedFiles(calls) ==
    {f \in bucket : \E k \in 1..Len(calls) : /\ calls[k].call = "downloadFileById"
                                             /\ calls[k].arg = <<ToString(f.fileId)>>}

\* C9: in part_013, GET /api/books/:id/pdf for a book without pdfFilePath: when
\* the record has b2FileId the bucket is not listed and the only download is
\* by that id; when it has none, a served file was found by listing the bucket,
\* and the file selected by the match has its id, and its name, on the record
\* of the local books.json afterwards; and the next /pdf request for the same
\* book makes no listing.
C9_FileIdChain ==
    [][ (RequestStep /\ req'.route = "GET pdf" /\ resp'.status # 404) =>
          LET book     == CacheLoaded[IndexOf(CacheLoaded, req'.id)]
              after    == localBooks'[IndexOf(localBooks', req'.id)]
              selected == DownloadedFiles(b2Calls')
          IN  ~Truthy(book.pdfFilePath) =>
                /\ book.b2FileId # 0 =>
                     /\ ~ListedAll(b2Calls')
                     /\ \A k \in 1..Len(b2Calls') :
                            b2Calls'[k].call = "downloadFileById"
                                => b2Calls'[k].arg = <<ToString(book.b2FileId)>>
                     /\ resp'.status = 200 => selected # {}
                /\ book.b2FileId = 0 =>
                     /\ resp'.status = 200 => ListingReturned(b2Calls')
                     /\ \A f \in selected : /\ after.b2FileId = f.fileId
                                            /\ after.b2FileName = f.fileName
                                            /\ after.fileName = f.fileName
                /\ ( /\ req.route = "GET pdf" /\ req.id = req'.id
                     /\ ListedAll(b2Calls) /\ DownloadedFiles(b2Calls) # {} )
                     => ~ListedAll(b2Calls')
      ]_vars

\* A /pdf request served by the cached id, without a listing, for a record
\* whose name an earlier request had corrected to the name of the file in B2.
C9_ServedByCachedId ==
    /\ req.route = "GET pdf" /\ req.id = 1 /\ resp.status = 200
    /\ ~ListedAll(b2Calls) /\ DownloadedFiles(b2Calls) # {}
    /\ Len(localBooks) > 0
    /\ localBooks[1].b2FileId # 0
    /\ localBooks[1].b2FileName # StoredName
    /\ resp.body.file = localBooks[1].b2FileName

\* C10: in part_013, when GET /pdf or GET /download lists the bucket, the file
\* whose name equals the stored name is the one selected whenever the listing
\* has it; without one, a file whose name equals it up to case is selected
\* whenever the listing has such a file; so a base-name or partial match is
\* selected only when the listing has neither.
C10_ExactNameFirst ==
    [][ ( /\ RequestStep /\ req'.route \in {"GET pdf", "GET download"}
          /\ ListingReturned(b2Calls') ) =>
          LET book     == CacheLoaded[IndexOf(CacheLoaded, req'.id)]
              fileName == Or(book.b2FileName, book.fileName)
              listing  == AllFiles(bucket, b2Json)
              exact    == {f \in listing : f.fileName = fileName}
              noCase   == {f \in listing : ToLowerCase(f.fileName) = ToLowerCase(fileName)}
              selected == DownloadedFiles(b2Calls')
          IN  /\ exact # {} => selected = exact
              /\ (exact = {} /\ noCase # {}) => (selected # {} /\ selected \subseteq noCase)
              /\ \A f \in selected : f \notin noCase => noCase = {}
      ]_vars

\* The exact name is served from a listing that also holds the name in another
\* case and a name that contains it, both listed before the exact one.
C10_ExactAmongVariants ==
    /\ req.route \in {"GET pdf", "GET download"} /\ resp.status = 200
    /\ ListingReturned(b2Calls)
    /\ Cardinality(bucket) = Len(CacheFileNames)
    /\ resp.body.file = StoredName

-----------------------------------------------------------------------------
(* Properties: the ZIP of a book in parts (SpecStream) *)

\* C11: GET /api/books/:id/download for a book with a non-empty pdfParts
\* answers with a ZIP: status 200, the entries in ascending partNumber order,
\* each named Part_<n>_<title>.pdf after a part of the book and holding a file
\* of the bucket; the request does not fail when parts cannot be fetched.
C11_ZipOfFetchedParts ==
    \A book \in PersistedRecords(req.id) :
        (req.route = "GET download" /\ Len(book.pdfParts) > 0) =>
            /\ resp.status = 200
            /\ resp.body.kind = "zip"
            /\ \A k \in 1..Len(resp.body.entries) :
                  LET e == resp.body.entries[k]
                  IN  /\ k > 1 => resp.body.entries[k - 1].partNumber < e.partNumber
                      /\ e.name = PartFileName(e.partNumber, book.title)
                      /\ \E j \in 1..Len(book.pdfParts) :
                            book.pdfParts[j].partNumber = e.partNumber
                      /\ \E f \in bucket : f.fileName = e.file

-----------------------------------------------------------------------------
(* Properties: the cover of a book (SpecCover) *)

\* C12: GET /api/books/:id/cover resolves the cover in this order: a redirect
\* to cloudinaryCoverUrl (else coverImage) when that is an http(s) URL;
\* otherwise, for a record with b2CoverFileName or with a coverImage that does
\* not start with '/', the file of that name streamed from B2 (or the 500 of a
\* failed B2 call), never a redirect or a 404; otherwise a redirect to a
\* coverImage that starts with /uploads; otherwise 404.  An unknown id: 404.
C12_CoverOrder ==
    req.route = "GET cover" =>
        LET known == {i \in 1..Len(localBooks) : localBooks[i].id = req.id}
        IN  IF known = {} THEN resp.status = 404
            ELSE \A i \in known :
                LET book  == localBooks[i]
                    url   == IF book.cloudinaryCoverUrl # <<>> THEN book.cloudinaryCoverUrl
                             ELSE book.coverImage
                    first == IF book.coverImage = <<>> THEN "" ELSE Head(book.coverImage)
                IN  IF url # <<>> /\ Head(url) \in {"http://", "https://"}
                    THEN resp = Response(302, [kind |-> "redirect", location |-> url])
                    ELSE IF book.b2CoverFileName # <<>> \/ first \notin {"", "/", "/uploads"}
                    THEN \/ /\ resp.status = 200
                            /\ resp.body.kind = "image"
                            /\ resp.body.file = IF book.b2CoverFileName # <<>>
                                                THEN book.b2CoverFileName ELSE book.coverImage
                            /\ \E f \in bucket : f.fileName = resp.body.file
                         \/ resp = Response(500, NoBody)
                    ELSE IF first = "/uploads"
                    THEN resp = Response(302, [kind |-> "redirect",
                                               location |-> book.coverImage])
                    ELSE resp.status = 404

\* A record with both a b2CoverFileName and a /uploads coverImage got the B2
\* file, not the redirect.
C12_StreamedBeforeUploads ==
    /\ req.route = "GET cover"
    /\ resp.status = 200
    /\ resp.body.kind = "image"
    /\ \E i \in 1..Len(localBooks) :
          /\ localBooks[i].id = req.id
          /\ localBooks[i].b2CoverFileName # <<>>
          /\ localBooks[i].coverImage # <<>>
          /\ Head(localBooks[i].coverImage) = "/uploads"

-----------------------------------------------------------------------------
(* Properties: interleaved admin requests (SpecRace) *)

\* C13: nothing coordinates the handlers that write the book list: the list a
\* handler saves is the list it read with its own change alone (the book it
\* created appended, the book it updated replaced, the book it deleted
\* removed), whatever other requests saved since it read; so a book whose POST
\* answered 201 can be lost to an interleaved request without being deleted.
C13_SavesOwnCopy ==
    [][\A h \in pending :
          (h.status = 0 /\ [h EXCEPT !.status = resp'.status] \in pending'
             /\ resp'.status \in {200, 201}) =>
              LET kept == SelectSeq(h.books, LAMBDA b : b.id # h.id)
                  now  == SelectSeq(localBooks', LAMBDA b : b.id # h.id)
                  mine == SelectSeq(localBooks', LAMBDA b : b.id = h.id)
              IN  /\ now = kept
                  /\ h.route = "POST book" =>
                        /\ Len(localBooks') = Len(h.books) + 1
                        /\ localBooks'[Len(localBooks')].id = h.id
                  /\ h.route = "PATCH metadata" =>
                        /\ Len(localBooks') = Len(h.books)
                        /\ Len(mine) > 0 /\ mine[1].title = "B"
                  /\ h.route = "DELETE book" => mine = <<>>]_vars

\* Two interleaved admin requests were answered, the first a POST with 201, no
\* DELETE was made for its book, and the book is in no persisted list.
C13_CreatedBookLost ==
    \E h \in pending :
        /\ h.route = "POST book"
        /\ h.status = 201
        /\ \A g \in pending : g.status # 0 /\ ~(g.route = "DELETE book" /\ g.id = h.id)
        /\ h.id \notin deletedOk
        /\ \A books \in PersistedLists : \A i \in 1..Len(books) : books[i].id # h.id

-----------------------------------------------------------------------------
(* Properties: successive admin requests (SpecSeq) *)

\* C14: a POST /api/admin/books that answers 201 only adds: every book that
\* was in a persisted list (books.json or data/books.json) before the request
\* is in a persisted list after it, whether getBooks got the list from B2 or
\* fell back to the local file.
C14_PostOnlyAdds ==
    [][\A h \in pending :
          (h.route = "POST book" /\ h.status = 0 /\ [h EXCEPT !.status = 201] \in pending') =>
              \A books \in PersistedLists : \A i \in 1..Len(books) :
                  \E kept \in PersistedLists' : \E j \in 1..Len(kept) :
                      kept[j].id = books[i].id]_vars

-----------------------------------------------------------------------------
(* Properties: the list that getBooks returns (Spec) *)

BookWriteRoutes ==
    {"POST book", "PUT book", "PATCH metadata", "PATCH trending", "DELETE book"}

\* C15: read-your-writes: when an admin write of the catalogue (create,
\* update, metadata patch, trending patch, delete) has answered with success,
\* a getBooks that follows it with no write in between and no failing call
\* returns the list the handler saved (the one saveBooks wrote to books.json),
\* also when the upload of data/books.json inside saveBooks failed.
C15_ReadYourWrites ==
    (req.route \in BookWriteRoutes /\ resp.status \in {200, 201}) =>
        getBooks(AuthState, NoFaults) = localBooks

-----------------------------------------------------------------------------
(* Properties: the sources of getBooks (SpecBooks) *)

\* C16: getBooks picks its source by fixed precedence, whichever calls fail:
\* the content of data/books.json whenever B2 is configured and the download
\* yields an array (the empty array included), whatever the local file holds;
\* otherwise the local books.json when it can be read; only otherwise the list
\* rebuilt from the Cloudinary covers and the B2 listings, which is empty when
\* Cloudinary is not configured.
C16_Precedence ==
    \A flt \in FaultsOf({"auth", "dl", "res", "lsb"}) :
        LET yields == /\ env.b2
                      /\ b2Authorized \/ "auth" \notin flt
                      /\ "dl" \notin flt
                      /\ b2Json # NoJson
            got    == getBooks(AuthState, flt)
            covers == {id \in 1..(2 * MaxBooks) :
                          \E a \in cloud : a.pid = <<"book-covers/", "cover-", ToString(id)>>}
        IN  IF yields THEN got = b2Json
            ELSE IF localBooks # NoJson THEN got = localBooks
            ELSE IF ~env.cloudinary THEN got = <<>>
            ELSE /\ {got[i].id : i \in 1..Len(got)} \subseteq covers
                 /\ "res" \notin flt => /\ {got[i].id : i \in 1..Len(got)} = covers
                                        /\ Len(got) = Cardinality(covers)
                 /\ \A i \in 1..Len(got) :
                       /\ got[i].cloudinaryCoverUrl =
                              <<"https://", "res.cloudinary.com/", "book-covers/", "cover-",
                                ToString(got[i].id)>>
                       /\ got[i].b2FileName # <<>> =>
                              \E f \in bucket : f.fileName = got[i].b2FileName
                       /\ \A k \in 1..Len(got[i].pdfParts) :
                              \E f \in bucket : f.fileName = got[i].pdfParts[k].b2FileName

\* GET /api/books answered with the empty list of data/books.json while the
\* local file holds books.
C16_EmptyB2ListWins ==
    /\ req.route = "GET books"
    /\ b2Json = <<>>
    /\ localBooks # NoJson /\ Len(localBooks) > 0
    /\ resp.status = 200
    /\ resp.body.books = <<>>

-----------------------------------------------------------------------------
(* Properties: the cache write of /pdf among admin requests (SpecCacheRace) *)

\* C17: the list that GET /api/books/:id/pdf of part_013 saves to cache the
\* file id holds the same books as the persisted list it replaces, none added
\* and none removed, and differs from it at most in b2FileId, b2FileName and
\* fileName of the requested book, also when admin requests were handled
\* between its getBooks and its saveBooks.
C17_CacheWriteKeepsBooks ==
    [][\A h \in pending :
          (h.route = "GET pdf" /\ h \notin pending') =>
              /\ Len(localBooks') = Len(localBooks)
              /\ \A i \in 1..Len(localBooks) :
                    IF localBooks[i].id = h.id /\ i <= Len(localBooks')
                    THEN [localBooks'[i] EXCEPT !.b2FileId = localBooks[i].b2FileId,
                                                !.b2FileName = localBooks[i].b2FileName,
                                                !.fileName = localBooks[i].fileName]
                             = localBooks[i]
                    ELSE i <= Len(localBooks') /\ localBooks'[i] = localBooks[i]]_vars

-----------------------------------------------------------------------------
(* Properties: DELETE /api/admin/books/:id and the files in B2 (Spec) *)

\* The names a record gives the DELETE handler: b2FileName || fileName of the
\* book and of each of its parts.
RecordedNames(book) ==
    ({Or(book.b2FileName, book.fileName)}
     \cup {Or(book.pdfParts[i].b2FileName, book.pdfParts[i].fileName) :
              i \in 1..Len(book.pdfParts)}) \ {<<>>}

Names(list) == {list[i] : i \in 1..Len(list)}

\* C18: DELETE /api/admin/books/:id with the admin password answers 404 only
\* for an id that a persisted list does not hold, and else answers success
\* with the record gone from the saved list, whatever B2 call fails: the B2
\* authorization, the listings or a deleteFileVersion. Every name in
\* b2.attempted is in b2.deleted or in b2.errors; when the B2 work started,
\* every name the record gives is in b2.deleted or in b2.errors, so a failed
\* deletion does not stop the others; and the bucket has lost exactly the
\* files named in b2.deleted.
C18_DeleteSurvivesB2Failures ==
    [][(req'.route = "DELETE book" /\ verifyAdminPassword(req', TRUE)) =>
        \/ /\ resp'.status = 404
           /\ \E books \in PersistedLists : IndexOf(books, req'.id) = 0
        \/ /\ resp'.status = 200
           /\ IndexOf(localBooks', req'.id) = 0
           /\ Names(resp'.body.attempted)
                 \subseteq Names(resp'.body.deleted) \cup Names(resp'.body.errors)
           /\ (resp'.body.attempted # <<>> \/ resp'.body.errors # <<>>)
                 => \E book \in PersistedRecords(req'.id) :
                        RecordedNames(book)
                           \subseteq Names(resp'.body.deleted) \cup Names(resp'.body.errors)
           /\ bucket' \subseteq bucket
           /\ {f.fileName : f \in bucket \ bucket'} = Names(resp'.body.deleted)]_vars

\* A DELETE answered success although the deletion of one file of the book
\* failed, with another file of the book deleted after the failure.
C18_DeletedDespiteFailure ==
    /\ req.route = "DELETE book" /\ resp.status = 200
    /\ IndexOf(localBooks, req.id) = 0
    /\ Len(resp.body.errors) > 0
    /\ Len(resp.body.deleted) = 1
    /\ resp.body.attempted = <<resp.body.errors[1], resp.body.deleted[1]>>

\* The files left in the bucket that POST /api/admin/books uploaded for book
\* id: POST names every file of a book books/<id>/...  The files PUT uploads
\* (pdfs/<now>-<name>) carry no id and are not counted.
UploadedFor(id) == {f \in bucket : StartsWith(f.fileName, BookPrefix(id))}

\* C19: after DELETE /api/admin/books/:id has answered success with an empty
\* b2.errors, no file that the server uploaded to B2 for that book is left in
\* the bucket.
C19_NoFileLeft ==
    (/\ req.route = "DELETE book" /\ resp.status = 200
     /\ resp.body.errors = <<>>)
        => UploadedFor(req.id) = {}

-----------------------------------------------------------------------------
(* Properties: termination of the prefix sweep (SpecSweep) *)

\* C20: the prefix sweep of DELETE /api/admin/books/:id terminates: a loop
\* that has started is eventually finished, whatever files the bucket holds
\* under the prefix, whichever deleteFileVersion calls reject and however many
\* pages the listing announces with a nextFileName.
C20_SweepTerminates ==
    (\E sw \in pending : ~sw.finished) ~> (\A sw \in pending : sw.finished)

\* A sweep that has finished after going on to another page, with files left
\* under the prefix because their deletion failed.
C20_SweptInPages ==
    \E sw \in pending :
        /\ sw.finished /\ sw.paged
        /\ UploadedFor(sw.id) # {}

-----------------------------------------------------------------------------
(* Properties: the B2 authorization flag (SpecAuth) *)

\* The calls that await b2.authorize.
Authorizing(calls) == {c.n : c \in {d \in calls : d.at = "authorize"}}

\* The calls whose b2.authorize settles in this step.
Settling == Authorizing(pending) \ Authorizing(pending')

Settled(n) == CHOOSE c \in pending' : c.n = n

\* C21: the B2 authorization flag.  In every state b2Authorized implies that
\* b2AuthData is set, and ensureB2Authorized applied to the state returns
\* without a change when b2Authorized is true, whether or not b2.authorize
\* would fail.  In every step: a call starts to await b2.authorize only while
\* b2Authorized is false; b2Authorized becomes true only in the step in which
\* a b2.authorize answers with data, and b2AuthData is then set; a b2.authorize
\* that rejects or answers without data makes its call throw and leaves
\* b2Authorized as it was, false unless another call's authorize set it
\* meanwhile.
C21_AuthorizedFlag ==
    /\ [](/\ b2Authorized => b2AuthData
          /\ b2Authorized =>
                \A flt \in SUBSET {"auth"} :
                    ensureB2Authorized(AuthState, flt)
                       = [auth |-> TRUE, data |-> b2AuthData, ok |-> TRUE]
          /\ (hasB2Credentials /\ ~b2Authorized) =>
                /\ ~ensureB2Authorized(AuthState, {"auth"}).auth
                /\ ~ensureB2Authorized(AuthState, {"auth"}).ok)
    /\ [][/\ Authorizing(pending') \ Authorizing(pending) # {} => ~b2Authorized
          /\ (~b2Authorized /\ b2Authorized') =>
                /\ b2AuthData'
                /\ \E n \in Settling : /\ Settled(n).at = "returned"
                                       /\ Settled(n).response = "data"
          /\ \A n \in Settling :
                /\ Settled(n).response # "data" =>
                      /\ Settled(n).at = "threw"
                      /\ b2Authorized' = b2Authorized
                      /\ b2AuthData' = b2AuthData
                /\ Settled(n).response = "data" =>
                      Settled(n).at = "returned" /\ b2Authorized']_vars

\* After a reset of the flag a new b2.authorize was rejected: the call threw,
\* b2Authorized is still false and the earlier b2AuthData is still set.
C21_FailedReauthorization ==
    /\ ~b2Authorized /\ b2AuthData
    /\ \E c \in pending : c.at = "threw" /\ c.response = "reject"

-----------------------------------------------------------------------------
(* Properties: the parts of a ZIP download (SpecZip) *)

\* The B2 name of part partNumber of the book that was asked for.
PartNames(partNumber) ==
    UNION {{book.pdfParts[k].b2FileName :
               k \in {j \in 1..Len(book.pdfParts) :
                          book.pdfParts[j].partNumber = partNumber}} :
              book \in PersistedRecords(req.id)}

NearMiss(a, b) == a # b /\ (Includes(a, b) \/ Includes(b, a))

\* C22: in the ZIP of GET /api/books/:id/download, the entry of a part holds
\* the data of the B2 file whose name equals the part's b2FileName whenever the
\* bucket holds such a file; a file whose name contains that name, or is
\* contained in it, is used only when the bucket holds no file of the exact
\* name.
C22_ExactPartFirst ==
    (req.route = "GET download" /\ resp.status = 200 /\ resp.body.kind = "zip") =>
        \A k \in 1..Len(resp.body.entries) :
            LET e == resp.body.entries[k]
            IN  \E name \in PartNames(e.partNumber) :
                    IF \E f \in bucket : f.fileName = name
                    THEN e.file = name
                    ELSE /\ NearMiss(e.file, name)
                         /\ \E f \in bucket : f.fileName = e.file

\* A ZIP whose first part was taken from the file of the exact name although
\* the bucket also holds files whose names contain it and are contained in
\* it, and whose second part was taken from a file that contains its name.
C22_ExactAmongNearMisses ==
    /\ req.route = "GET download" /\ resp.status = 200 /\ resp.body.kind = "zip"
    /\ Len(resp.body.entries) = 2
    /\ resp.body.entries[1].file = PostPartName(1, 1, 0)
    /\ \E f \in bucket : f.fileName = <<"-", "x.pdf">>
    /\ \E f \in bucket : f.fileName = PostPartName(1, 1, 0) \o <<".bak">>
    /\ resp.body.entries[2].file = PostPartName(1, 2, 0) \o <<".bak">>

====
